---- MODULE Spec2Model ----
(***************************************************************************)
(* Renewal orchestration pipeline of caasmo/restinpieces-acme.             *)
(*                                                                         *)
(* The repository holds several iterations of the renewal handler.  Four   *)
(* of them are modelled, selected by the variable `variant`:               *)
(*   "TLS" : handlers.TLSCertRenewalHandler   (src/unnamed/part_004)       *)
(*   "V1"  : acme.CertRenewalHandler, certificate_output iteration         *)
(*           (src/AcmeCertRenewal.go:83-233)                               *)
(*   "V2"  : acme.CertRenewalHandler, acme_certificate iteration           *)
(*           (src/AcmeCertRenewal.go:341-507)                              *)
(*   "Hist": acme.CertRenewalHandler, certificate history iteration        *)
(*           (src/unnamed/part_003:80-229)                                 *)
(*                                                                         *)
(* Handle is a sequential pipeline of blocking calls.  One action models   *)
(* the code between two blocking external calls; `pc` is the position of   *)
(* the invocation.  The external collaborators (lego client, Cloudflare    *)
(* provider constructor, store) answer nondeterministically where their    *)
(* result does not follow from their arguments.                            *)
(***************************************************************************)
EXTENDS Integers, Sequences, FiniteSets, TLC

VARIABLES
    variant,    \* which iteration of the handler is running
    cfg,        \* the handler's configuration (h.config / configProvider.Get())
    now,        \* wall clock, in hours
    pc,         \* position of the current invocation of Handle
    runs,       \* number of invocations started so far
    calls,      \* external calls made by the current invocation, in order
    obtainReq,  \* the certificate.ObtainRequest of the current invocation
    resource,   \* the certificate.Resource returned by Obtain
    resolved,   \* arguments and result of the last getDNSProvider call
    registration, \* acmeUser.Registration of the current invocation
    gate,       \* arguments and result of the last certificateNeedsRenewal call
    saveArgs,   \* records handed to the persistence call by the current invocation
    store,      \* successfully persisted entries, oldest first
    logs,       \* error and warning log entries of the current invocation
    result,     \* what Handle returned
    resp,       \* answers of the external services to the current invocation, in order
    prev,       \* answers, calls and result of the invocation before the current one
    saveLog,    \* payloads of the successful persistence calls, oldest first
    reader,     \* what the last read of the store returned
    pair,       \* two invocations of Handle that run at the same time
    validation  \* argument and result of the last Validate call

vars == <<variant, cfg, now, pc, runs, calls, obtainReq, resource, resolved,
          registration, gate, saveArgs, store, logs, result,
          resp, prev, saveLog, reader, pair, validation>>

-----------------------------------------------------------------------------
(* Bounds *)

MaxRuns == 2

-----------------------------------------------------------------------------
(* Program constants *)

DNSProviderCloudflare == "cloudflare"
ScopeAcmeCertificate == "acme_certificate"
CertificateOutputScope == "certificate_output"
AcmeCertificatesTable == "acme_certificates"
CertificatesTable == "certificates"
\* the scope the update-app-certificate command reads (acme.CertificateScope)
CertificateScope == "acme_certificate"

HoursPerDay == 24

-----------------------------------------------------------------------------
(* Input domains *)

Variants == {"TLS", "V1", "V2", "Hist"}

Emails == {"", "admin@example.com"}

\* "u-name.example" stands for a domain written with non-ASCII characters,
\* "xn--name.example" for its punycode form.  The last list has a wildcard
\* without its base domain.
DomainLists ==
    { <<>>,
      <<"example.com", "*.example.com">>,
      <<"u-name.example">>,
      <<"*.example.org">> }

ProviderNames == {"", "cloudflare", "route53"}

Tokens == {"", "cf-token"}

ProviderMaps ==
    { <<>>,
      [n \in {"cloudflare"} |-> "cf-token"],
      [n \in {"cloudflare"} |-> ""],
      [n \in {"route53"} |-> "cf-token"],
      [n \in {"cloudflare", "route53"} |-> "cf-token"],
      [n \in {"cloudflare", "route53"} |-> ""] }

DirectoryURLs == {"", "https://ca.example/directory"}

AccountKeys == {"", "not-a-key", "ec-p256-pem"}

Thresholds == {-1, 0, 30}

\* A PEM chain is described by what its leading block is (`raw`) and, when it
\* is a certificate, by the validity of the leaf: instants in hours and the
\* time zone in which the certificate writes them.
NoChain == [raw |-> "empty", notBefore |-> 0, notAfter |-> 0, zone |-> "UTC"]
GarbageChain == [raw |-> "garbage", notBefore |-> 0, notAfter |-> 0, zone |-> "UTC"]
BadDerChain == [raw |-> "badder", notBefore |-> 0, notAfter |-> 0, zone |-> "UTC"]

Leaf(nb, na) == [raw |-> "cert", notBefore |-> nb, notAfter |-> na, zone |-> "UTC"]
LeafIn(nb, na, z) == [raw |-> "cert", notBefore |-> nb, notAfter |-> na, zone |-> z]

\* existing certificate data found in cfg.Server.CertData
ExistingChains ==
    { NoChain, GarbageChain, BadDerChain,
      Leaf(-80 * HoursPerDay, 10 * HoursPerDay),
      Leaf(-60 * HoursPerDay, 30 * HoursPerDay - 1),
      Leaf(-60 * HoursPerDay, 30 * HoursPerDay),
      Leaf(-30 * HoursPerDay, 60 * HoursPerDay),
      Leaf(-90 * HoursPerDay, 0),
      Leaf(-91 * HoursPerDay, -12) }

\* chains an Obtain call may hand back
ObtainChains ==
    { GarbageChain, BadDerChain,
      Leaf(0, 90 * HoursPerDay),
      LeafIn(-1, 90 * HoursPerDay - 1, "+01:00"),
      Leaf(2 * HoursPerDay, HoursPerDay) }

NoResource == [Domain |-> "", Certificate |-> NoChain, PrivateKey |-> ""]
NoRequest == [Domains |-> <<>>, Bundle |-> FALSE]
NoResolve == [called |-> FALSE, name |-> "", token |-> "", provider |-> "", failed |-> FALSE]
NoGate == [called |-> FALSE, data |-> NoChain, threshold |-> 0, at |-> 0,
           needs |-> FALSE, failed |-> FALSE]

\* an answer of an external service: which call, whether it succeeded and,
\* for Obtain, the chain it returned
Answer(op, ok, chain) == [call |-> op, ok |-> ok, chain |-> chain]

Pending == [status |-> "pending", msg |-> "", names |-> FALSE, domains |-> <<>>]
Success == [status |-> "ok", msg |-> "", names |-> FALSE, domains |-> <<>>]

\* an error whose text does not contain the domain list
Err(m) == [status |-> "err", msg |-> m, names |-> FALSE, domains |-> <<>>]
\* an error whose text contains the domain list (%v of request.Domains)
ErrNaming(m, ds) == [status |-> "err", msg |-> m, names |-> TRUE, domains |-> ds]

LogEntry(lvl, m, fs) == [level |-> lvl, msg |-> m, fields |-> fs]

-----------------------------------------------------------------------------
(* External library functions whose result follows from their argument *)

\* certcrypto.ParsePEMPrivateKey: TRUE iff the PEM text holds a private key
ParsePEMPrivateKey(k) == k = "ec-p256-pem"

\* pem.Decode: TRUE iff a PEM block is found (block != nil)
PemDecode(chain) == chain.raw \in {"badder", "cert"}

\* x509.ParseCertificate on the decoded block: TRUE iff err == nil
ParseCertificate(chain) == chain.raw = "cert"

\* idna.ToASCII as applied by lego's Obtain to every requested domain
ToASCII(d) == IF d = "u-name.example" THEN "xn--name.example" ELSE d

\* time.Time values carry an instant and a location; x509 yields the times
\* with the zone written in the certificate, Time.UTC() moves them to UTC
NotBefore(chain) == [instant |-> chain.notBefore, loc |-> chain.zone]
NotAfter(chain) == [instant |-> chain.notAfter, loc |-> chain.zone]
\* variant of UTC that leaves the time in the zone it came in
UTCKeepLocation(t) == t

UTC(t) == [instant |-> t.instant, loc |-> "UTC"]

\* json.Marshal of a []string keeps the elements and their order
JSONMarshal(ds) == [json |-> ds]

\* cloudflare.NewDNSProviderConfig: rejects a configuration without credentials
NewDNSProviderConfig(token) == token # ""

-----------------------------------------------------------------------------
(* ExpiryGate: TLSCertRenewalHandler.certificateNeedsRenewal *)

\* variant of certificateNeedsRenewal that also renews at exactly the threshold
certificateNeedsRenewalInclusive(certPEMData, renewalDaysThreshold, t) ==
    IF certPEMData.raw = "empty" THEN TRUE
    ELSE IF ~PemDecode(certPEMData) THEN TRUE
    ELSE IF ~ParseCertificate(certPEMData) THEN TRUE
    ELSE (certPEMData.notAfter - t) <= renewalDaysThreshold * HoursPerDay

\* variant of certificateNeedsRenewal that treats empty data as a certificate
\* with no time left
certificateNeedsRenewalEmptyByThreshold(certPEMData, renewalDaysThreshold, t) ==
    IF certPEMData.raw = "empty" THEN 0 < renewalDaysThreshold * HoursPerDay
    ELSE IF ~PemDecode(certPEMData) THEN TRUE
    ELSE IF ~ParseCertificate(certPEMData) THEN TRUE
    ELSE (certPEMData.notAfter - t) < renewalDaysThreshold * HoursPerDay

\* part_004:274-311: time.Until(cert.NotAfter).Hours() / 24 is compared with
\* the threshold; with time in whole hours, hours/24 < T iff hours < 24 * T
certificateNeedsRenewal(certPEMData, renewalDaysThreshold, t) ==
    IF certPEMData.raw = "empty" THEN TRUE
    ELSE IF ~PemDecode(certPEMData) THEN TRUE
    ELSE IF ~ParseCertificate(certPEMData) THEN TRUE
    ELSE (certPEMData.notAfter - t) < renewalDaysThreshold * HoursPerDay

\* variant of certificateNeedsRenewalError that reports unreadable data as an error
certificateNeedsRenewalErrorStrict(certPEMData) ==
    certPEMData.raw # "empty" /\ ~(PemDecode(certPEMData) /\ ParseCertificate(certPEMData))

\* the error certificateNeedsRenewal returns: nil on every path
\* (part_004:277, 286, 295, 306, 310)
certificateNeedsRenewalError(certPEMData) == FALSE

\* the warnings certificateNeedsRenewal writes
certificateNeedsRenewalLogs(certPEMData) ==
    IF certPEMData.raw = "empty" THEN {}
    ELSE IF ~PemDecode(certPEMData)
        THEN {LogEntry("warn", "Failed to decode PEM block from certificate data in config", {})}
    ELSE IF ~ParseCertificate(certPEMData)
        THEN {LogEntry("warn", "Failed to parse certificate from config data", {"error"})}
    ELSE {}

-----------------------------------------------------------------------------
(* ChallengeProviderResolver: getDNSProvider *)

\* variant of getDNSProvider that hands out a solver although its construction failed
getDNSProviderLenient(providerName, providerConfig) ==
    IF providerName = DNSProviderCloudflare
    THEN [provider |-> "cloudflare", failed |-> FALSE,
          err |-> Success, constructed |-> TRUE]
    ELSE [provider |-> "", failed |-> TRUE,
          err |-> Err("unsupported DNS provider configured"), constructed |-> FALSE]

\* variant of getDNSProvider whose default branch falls back to Cloudflare
getDNSProviderFallback(providerName, providerConfig) ==
    IF NewDNSProviderConfig(providerConfig)
    THEN [provider |-> "cloudflare", failed |-> FALSE,
          err |-> Success, constructed |-> TRUE]
    ELSE [provider |-> "", failed |-> TRUE,
          err |-> Err("failed to create Cloudflare provider"), constructed |-> TRUE]


getDNSProvider(providerName, providerConfig) ==
    IF providerName = DNSProviderCloudflare
    THEN IF NewDNSProviderConfig(providerConfig)
         THEN [provider |-> "cloudflare", failed |-> FALSE,
               err |-> Success, constructed |-> TRUE]
         ELSE [provider |-> "", failed |-> TRUE,
               err |-> Err("failed to create Cloudflare provider"), constructed |-> TRUE]
    ELSE [provider |-> "", failed |-> TRUE,
          err |-> Err("unsupported DNS provider configured"), constructed |-> FALSE]

-----------------------------------------------------------------------------
(* Configurations a handler can be constructed with.  No caller validates   *)
(* the configuration before constructing the handler, so every combination *)
(* of present and missing fields can reach Handle.                         *)

NoProviders == [n \in {} |-> ""]

TLSConfigs ==
    [Enabled : BOOLEAN, Email : Emails, Domains : DomainLists,
     DNSProvider : ProviderNames, CloudflareApiToken : Tokens,
     DNSProviders : {NoProviders}, ActiveDNSProvider : {""},
     CADirectoryURL : DirectoryURLs, AcmeAccountPrivateKey : AccountKeys,
     CertData : ExistingChains, RenewalDaysBeforeExpiry : Thresholds]

V1Configs ==
    [Enabled : {TRUE}, Email : Emails, Domains : DomainLists,
     DNSProvider : {""}, CloudflareApiToken : {""},
     DNSProviders : ProviderMaps, ActiveDNSProvider : {""},
     CADirectoryURL : DirectoryURLs, AcmeAccountPrivateKey : AccountKeys,
     CertData : {NoChain}, RenewalDaysBeforeExpiry : {0}]

V2Configs ==
    [Enabled : {TRUE}, Email : Emails, Domains : DomainLists,
     DNSProvider : {""}, CloudflareApiToken : {""},
     DNSProviders : ProviderMaps, ActiveDNSProvider : ProviderNames,
     CADirectoryURL : DirectoryURLs, AcmeAccountPrivateKey : AccountKeys,
     CertData : {NoChain}, RenewalDaysBeforeExpiry : {0}]

\* part_003:38-44: the same fields as V1
HistConfigs == V1Configs

ConfigsOf(v) ==
    IF v = "TLS" THEN TLSConfigs
    ELSE IF v = "V1" THEN V1Configs
    ELSE IF v = "Hist" THEN HistConfigs
    ELSE V2Configs

NoPrev == [ran |-> FALSE, resp |-> <<>>, calls |-> <<>>, result |-> Pending]
NoRead == [called |-> FALSE, found |-> FALSE, payload |-> NoResource, err |-> ""]
NoPair == <<>>
NoValidation == [called |-> FALSE, by |-> "", err |-> ""]

Init ==
    /\ variant \in Variants
    /\ cfg \in ConfigsOf(variant)
    /\ now = 0
    /\ pc = "idle"
    /\ runs = 0
    /\ calls = <<>>
    /\ obtainReq = NoRequest
    /\ resource = NoResource
    /\ resolved = NoResolve
    /\ registration = "nil"
    /\ gate = NoGate
    /\ saveArgs = <<>>
    /\ store = <<>>
    /\ logs = {}
    /\ result = Pending
    /\ resp = <<>>
    /\ prev = NoPrev
    /\ saveLog = <<>>
    /\ reader = NoRead
    /\ pair = NoPair
    /\ validation = NoValidation

-----------------------------------------------------------------------------
(* Handle, entry *)

\* variant of Invoke in which the handler keeps the account registration of
\* the previous invocation
InvokeRetainingRegistration ==
    /\ pc \in {"idle", "done", "failed"}
    /\ runs < MaxRuns
    /\ runs' = runs + 1
    /\ pc' = IF variant = "TLS" THEN "validate" ELSE "parseKey"
    /\ calls' = <<>>
    /\ obtainReq' = NoRequest
    /\ resource' = NoResource
    /\ resolved' = NoResolve
    /\ gate' = NoGate
    /\ saveArgs' = <<>>
    /\ logs' = {}
    /\ result' = Pending
    /\ resp' = <<>>
    /\ prev' = IF runs = 0 THEN NoPrev
               ELSE [ran |-> TRUE, resp |-> resp, calls |-> calls, result |-> result]
    /\ UNCHANGED <<variant, cfg, now, saveLog, reader, pair, validation, store,
                   registration>>

\* Handle is invoked (by the job runner or by the manual runner)
Invoke ==
    /\ pc \in {"idle", "done", "failed"}
    /\ runs < MaxRuns
    /\ runs' = runs + 1
    /\ pc' = IF variant = "TLS" THEN "validate" ELSE "parseKey"
    /\ calls' = <<>>
    /\ obtainReq' = NoRequest
    /\ resource' = NoResource
    /\ resolved' = NoResolve
    /\ registration' = "nil"
    /\ gate' = NoGate
    /\ saveArgs' = <<>>
    /\ logs' = {}
    /\ result' = Pending
    /\ resp' = <<>>
    /\ prev' = IF runs = 0 THEN NoPrev
               ELSE [ran |-> TRUE, resp |-> resp, calls |-> calls, result |-> result]
    /\ UNCHANGED <<variant, cfg, now, saveLog, reader, pair, validation, store>>

\* variant of Disabled that ignores the master switch
DisabledNever(c) == FALSE

\* part_004:63  if !cfg.Acme.Enabled
Disabled(c) == ~c.Enabled

\* variant of ValidateOutcome that treats a missing account key as nothing to do
ValidateOutcomeKeyless(c, t) ==
    IF Disabled(c)
        THEN [pc |-> "done", result |-> Success, logs |-> {}]
    ELSE IF c.DNSProvider # "cloudflare"
        THEN [pc |-> "failed", result |-> Err("unsupported DNS provider configured"), logs |-> {}]
    ELSE IF c.CloudflareApiToken = ""
        THEN [pc |-> "failed", result |-> Err("cloudflare API token is missing"), logs |-> {}]
    ELSE IF Len(c.Domains) = 0
        THEN [pc |-> "failed", result |-> Err("no domains configured for ACME renewal"), logs |-> {}]
    ELSE IF certificateNeedsRenewalError(c.CertData)
        THEN [pc |-> "failed", result |-> Err("failed to check certificate expiry"), logs |-> {}]
    ELSE IF ~certificateNeedsRenewal(c.CertData, c.RenewalDaysBeforeExpiry, t)
        THEN [pc |-> "done", result |-> Success, logs |-> {}]
    ELSE IF c.AcmeAccountPrivateKey = ""
        THEN [pc |-> "done", result |-> Success, logs |-> {}]
    ELSE [pc |-> "parseKey", result |-> Pending, logs |-> {}]

\* variant of ValidateOutcome that goes on to issuance whatever the expiry check says
ValidateOutcomeUngated(c, t) ==
    IF Disabled(c)
        THEN [pc |-> "done", result |-> Success, logs |-> {}]
    ELSE IF c.DNSProvider # "cloudflare"
        THEN [pc |-> "failed", result |-> Err("unsupported DNS provider configured"), logs |-> {}]
    ELSE IF c.CloudflareApiToken = ""
        THEN [pc |-> "failed", result |-> Err("cloudflare API token is missing"), logs |-> {}]
    ELSE IF Len(c.Domains) = 0
        THEN [pc |-> "failed", result |-> Err("no domains configured for ACME renewal"), logs |-> {}]
    ELSE IF c.AcmeAccountPrivateKey = ""
        THEN [pc |-> "failed", result |-> Err("ACME account private key is missing"), logs |-> {}]
    ELSE [pc |-> "parseKey", result |-> Pending, logs |-> {}]

\* part_004:63-111: the checks TLSCertRenewalHandler.Handle makes before it
\* parses the account key; the value is where the run goes and what it returns
ValidateOutcome(c, t) ==
    IF Disabled(c)
        THEN [pc |-> "done", result |-> Success, logs |-> {}]
    ELSE IF c.DNSProvider # "cloudflare"
        THEN [pc |-> "failed", result |-> Err("unsupported DNS provider configured"),
              logs |-> {LogEntry("error", "unsupported DNS provider configured", {})}]
    ELSE IF c.CloudflareApiToken = ""
        THEN [pc |-> "failed", result |-> Err("cloudflare API token is missing"),
              logs |-> {LogEntry("error", "cloudflare API token is missing", {})}]
    ELSE IF Len(c.Domains) = 0
        THEN [pc |-> "failed", result |-> Err("no domains configured for ACME renewal"),
              logs |-> {LogEntry("error", "no domains configured for ACME renewal", {})}]
    ELSE IF certificateNeedsRenewalError(c.CertData)
        THEN [pc |-> "failed", result |-> Err("failed to check certificate expiry"),
              logs |-> certificateNeedsRenewalLogs(c.CertData)
                       \cup {LogEntry("error", "Failed to check certificate expiry", {"error"})}]
    ELSE IF ~certificateNeedsRenewal(c.CertData, c.RenewalDaysBeforeExpiry, t)
        THEN [pc |-> "done", result |-> Success,
              logs |-> certificateNeedsRenewalLogs(c.CertData)]
    ELSE IF c.AcmeAccountPrivateKey = ""
        THEN [pc |-> "failed", result |-> Err("ACME account private key is missing"),
              logs |-> certificateNeedsRenewalLogs(c.CertData)
                       \cup {LogEntry("error", "ACME account private key is missing", {})}]
    ELSE [pc |-> "parseKey", result |-> Pending,
          logs |-> certificateNeedsRenewalLogs(c.CertData)]

\* part_004:63-85: TRUE iff Handle gets as far as the expiry check
GateReached(c) ==
    /\ ~Disabled(c)
    /\ c.DNSProvider = "cloudflare"
    /\ c.CloudflareApiToken # ""
    /\ Len(c.Domains) > 0

\* part_004:89: the call h.certificateNeedsRenewal(cfg.Server.CertData,
\* cfg.Acme.RenewalDaysBeforeExpiry) made at time t, with what it returned
GateCall(c, t) ==
    [called |-> TRUE, data |-> c.CertData, threshold |-> c.RenewalDaysBeforeExpiry,
     at |-> t,
     needs |-> certificateNeedsRenewal(c.CertData, c.RenewalDaysBeforeExpiry, t),
     failed |-> certificateNeedsRenewalError(c.CertData)]

ValidateConfig ==
    /\ pc = "validate"
    /\ variant = "TLS"
    /\ LET v == ValidateOutcome(cfg, now) IN
        /\ pc' = v.pc
        /\ result' = v.result
        /\ logs' = logs \cup v.logs
    /\ gate' = IF GateReached(cfg) THEN GateCall(cfg, now) ELSE gate
    /\ UNCHANGED <<resp, prev, saveLog, reader, pair, validation>>
    /\ UNCHANGED <<variant, cfg, now, registration, runs, calls, obtainReq, resource, resolved,
                   saveArgs, store>>

\* certcrypto.ParsePEMPrivateKey([]byte(cfg.AcmeAccountPrivateKey))
ParseAccountKey ==
    /\ pc = "parseKey"
    /\ calls' = Append(calls, "parseKey")
    /\ IF ParsePEMPrivateKey(cfg.AcmeAccountPrivateKey)
       THEN /\ pc' = "newClient"
            /\ UNCHANGED <<result, logs>>
       ELSE /\ pc' = "failed"
            /\ result' = Err("failed to parse ACME account private key")
            /\ logs' = logs \cup
                 {LogEntry("error", "Failed to parse ACME account private key from config", {"error"})}
    /\ UNCHANGED <<resp, prev, saveLog, reader, pair, validation>>
    /\ UNCHANGED <<variant, cfg, now, registration, gate, runs, obtainReq, resource, resolved,
                   saveArgs, store>>

\* lego.NewClient(legoConfig): fetches the CA directory from cfg.CADirectoryURL
NewClient ==
    /\ pc = "newClient"
    /\ calls' = Append(calls, "newClient")
    /\ \E ok \in BOOLEAN :
        /\ ok => cfg.CADirectoryURL # ""
        /\ resp' = Append(resp, Answer("newClient", ok, NoChain))
        /\ IF ok
           THEN /\ pc' = "resolve"
                /\ UNCHANGED <<result, logs>>
           ELSE /\ pc' = "failed"
                /\ result' = Err("failed to create ACME client")
                /\ logs' = logs \cup {LogEntry("error", "Failed to create ACME client", {"error"})}
    /\ UNCHANGED <<prev, saveLog, reader, pair, validation>>
    /\ UNCHANGED <<variant, cfg, now, registration, gate, runs, obtainReq, resource, resolved,
                   saveArgs, store>>

-----------------------------------------------------------------------------
(* Provider resolution *)

\* AcmeCertRenewal.go:366-386 (V2): select the active provider and build it
ResolveV2(c) ==
    IF c.ActiveDNSProvider = ""
        THEN [failed |-> TRUE, constructed |-> FALSE, dispatched |-> FALSE,
              err |-> Err("ActiveDNSProvider field is missing or empty in ACME configuration")]
    ELSE IF c.ActiveDNSProvider \notin DOMAIN c.DNSProviders
        THEN [failed |-> TRUE, constructed |-> FALSE, dispatched |-> FALSE,
              err |-> Err("configured ActiveDNSProvider not found in DNSProviders map")]
    ELSE LET r == getDNSProvider(c.ActiveDNSProvider, c.DNSProviders[c.ActiveDNSProvider])
         IN  [failed |-> r.failed, constructed |-> r.constructed, dispatched |-> TRUE,
              err |-> r.err]

\* AcmeCertRenewal.go:111-139 (V1) and part_003:108-136 (Hist): the provider
\* name is the constant "cloudflare"
ResolveV1(c) ==
    IF DNSProviderCloudflare \notin DOMAIN c.DNSProviders
        THEN [failed |-> TRUE, constructed |-> FALSE, dispatched |-> FALSE,
              err |-> Err("required DNS provider not found in configuration")]
    ELSE IF NewDNSProviderConfig(c.DNSProviders[DNSProviderCloudflare])
        THEN [failed |-> FALSE, constructed |-> TRUE, dispatched |-> FALSE, err |-> Success]
    ELSE [failed |-> TRUE, constructed |-> TRUE, dispatched |-> FALSE,
          err |-> Err("failed to create Cloudflare provider")]

\* part_004:139-147 (TLS): the Cloudflare provider is built from the token
ResolveTLS(c) ==
    IF NewDNSProviderConfig(c.CloudflareApiToken)
        THEN [failed |-> FALSE, constructed |-> TRUE, dispatched |-> FALSE, err |-> Success]
    ELSE [failed |-> TRUE, constructed |-> TRUE, dispatched |-> FALSE,
          err |-> Err("failed to create Cloudflare provider")]

ResolveOutcome(v, c) ==
    IF v = "V2" THEN ResolveV2(c)
    ELSE IF v \in {"V1", "Hist"} THEN ResolveV1(c)
    ELSE ResolveTLS(c)

ResolveProvider ==
    /\ pc = "resolve"
    /\ LET r == ResolveOutcome(variant, cfg) IN
        /\ calls' = IF r.constructed THEN Append(calls, "newProvider") ELSE calls
        /\ resolved' =
             IF r.dispatched
             THEN LET g == getDNSProvider(cfg.ActiveDNSProvider,
                                          cfg.DNSProviders[cfg.ActiveDNSProvider])
                  IN  [called |-> TRUE, name |-> cfg.ActiveDNSProvider,
                       token |-> cfg.DNSProviders[cfg.ActiveDNSProvider],
                       provider |-> g.provider, failed |-> g.failed]
             ELSE resolved
        /\ IF r.failed
           THEN /\ pc' = "failed"
                /\ result' = r.err
                /\ logs' = logs \cup {LogEntry("error", r.err.msg, {})}
           ELSE /\ pc' = "setProvider"
                /\ UNCHANGED <<result, logs>>
    /\ UNCHANGED <<resp, prev, saveLog, reader, pair, validation>>
    /\ UNCHANGED <<variant, cfg, now, registration, gate, runs, obtainReq, resource, saveArgs, store>>

\* legoClient.Challenge.SetDNS01Provider(dnsProvider, dns01.AddDNSTimeout(10*time.Minute))
SetDNS01Provider ==
    /\ pc = "setProvider"
    /\ calls' = Append(calls, "setProvider")
    /\ \E ok \in BOOLEAN :
        /\ resp' = Append(resp, Answer("setProvider", ok, NoChain))
        /\ IF ok
           THEN /\ pc' = "register"
                /\ UNCHANGED <<result, logs>>
           ELSE /\ pc' = "failed"
                /\ result' = Err("failed to set DNS01 provider")
                /\ logs' = logs \cup
                     {LogEntry("error", "Failed to set DNS01 provider", {"error"})}
    /\ UNCHANGED <<prev, saveLog, reader, pair, validation>>
    /\ UNCHANGED <<variant, cfg, now, registration, gate, runs, obtainReq, resource, resolved,
                   saveArgs, store>>

-----------------------------------------------------------------------------
(* Account registration and certificate issuance *)

\* variant of RegisterNeeded that registers only an account already registered
RegisterNeededInverted(v, reg) == reg # "nil"

\* AcmeCertRenewal.go:402 (V2) registers unconditionally; V1, Hist and TLS
\* guard the call by acmeUser.Registration == nil (AcmeCertRenewal.go:150,
\* part_003:148, part_004:169)
RegisterNeeded(v, reg) == v = "V2" \/ reg = "nil"

\* variant of Register that calls Register a second time when the first call fails
RegisterRetrying ==
    /\ pc = "register"
    /\ calls' = Append(calls, "register")
    /\ \E ok \in BOOLEAN :
        /\ resp' = Append(resp, Answer("register", ok, NoChain))
        /\ IF ok
           THEN /\ pc' = "obtain"
                /\ registration' = "account"
                /\ UNCHANGED <<result, logs>>
           ELSE /\ pc' = IF Len(SelectSeq(calls, LAMBDA op : op = "register")) = 0
                         THEN "register" ELSE "failed"
                /\ result' = IF pc' = "failed" THEN Err("ACME registration failed")
                             ELSE result
                /\ UNCHANGED <<registration, logs>>
    /\ UNCHANGED <<prev, saveLog, reader, pair, validation>>
    /\ UNCHANGED <<variant, cfg, now, gate, runs, obtainReq, resource, resolved,
                   saveArgs, store>>

\* legoClient.Registration.Register(RegisterOptions{TermsOfServiceAgreed: true});
\* the AcmeUser is built a few lines earlier in the same invocation, with
\* no Registration, and keeps the registration the call returns
Register ==
    /\ pc = "register"
    /\ IF RegisterNeeded(variant, registration)
       THEN /\ calls' = Append(calls, "register")
            /\ \E ok \in BOOLEAN :
                /\ resp' = Append(resp, Answer("register", ok, NoChain))
                /\ IF ok
                   THEN /\ pc' = "obtain"
                        /\ registration' = "account"
                        /\ UNCHANGED <<result, logs>>
                   ELSE /\ pc' = "failed"
                        /\ result' = Err("ACME registration failed")
                        /\ logs' = logs \cup
                             {LogEntry("error", "ACME account registration failed",
                                       {"email", "error"})}
                        /\ UNCHANGED registration
       ELSE /\ pc' = "obtain"
            /\ UNCHANGED <<calls, registration, result, logs, resp>>
    /\ UNCHANGED <<prev, saveLog, reader, pair, validation>>
    /\ UNCHANGED <<variant, cfg, now, gate, runs, obtainReq, resource, resolved,
                   saveArgs, store>>

\* variant of ObtainRequest that asks for the primary domain only
ObtainRequestPrimaryOnly(c) ==
    [Domains |-> IF Len(c.Domains) > 1 THEN <<c.Domains[1]>> ELSE c.Domains,
     Bundle |-> TRUE]

\* certificate.ObtainRequest{Domains: cfg.Domains, Bundle: true}
ObtainRequest(c) == [Domains |-> c.Domains, Bundle |-> TRUE]

\* the error Handle returns when Obtain fails
ObtainError(v, request) ==
    IF v = "TLS"
    THEN Err("failed to obtain ACME certificate")
    ELSE ErrNaming("failed to obtain certificate for domains", request.Domains)

\* variant of Obtain that goes back to the registration when Obtain fails
ObtainRetrying ==
    /\ pc = "obtain"
    /\ LET request == ObtainRequest(cfg) IN
        \E ok \in BOOLEAN, chain \in ObtainChains :
            /\ ok => Len(request.Domains) > 0
            /\ ~ok => chain = GarbageChain
            /\ IF ok
               THEN /\ pc' = "save"
                    /\ calls' = Append(calls, "obtain")
                    /\ obtainReq' = request
                    /\ resp' = Append(resp, Answer("obtain", ok, chain))
                    /\ resource' = [Domain |-> ToASCII(Head(request.Domains)),
                                    Certificate |-> chain,
                                    PrivateKey |-> "issued-key-pem"]
                    /\ UNCHANGED registration
               ELSE /\ pc' = "register"
                    /\ calls' = SubSeq(calls, 1, Len(calls) - 1)
                    /\ resp' = SubSeq(resp, 1, Len(resp) - 1)
                    /\ registration' = "nil"
                    /\ UNCHANGED <<obtainReq, resource>>
    /\ UNCHANGED <<result, logs, prev, saveLog, reader, pair, validation>>
    /\ UNCHANGED <<variant, cfg, now, gate, runs, resolved, saveArgs, store>>

\* variant of Obtain in which a failed Obtain empties the store
ObtainLosingStore ==
    /\ pc = "obtain"
    /\ calls' = Append(calls, "obtain")
    /\ LET request == ObtainRequest(cfg) IN
        /\ obtainReq' = request
        /\ \E ok \in BOOLEAN, chain \in ObtainChains :
            /\ ok => Len(request.Domains) > 0
            /\ ~ok => chain = GarbageChain
            /\ resp' = Append(resp, Answer("obtain", ok, IF ok THEN chain ELSE NoChain))
            /\ IF ok
               THEN /\ pc' = "save"
                    /\ store' = store
                    /\ resource' = [Domain |-> ToASCII(Head(request.Domains)),
                                    Certificate |-> chain,
                                    PrivateKey |-> "issued-key-pem"]
                    /\ UNCHANGED <<result, logs>>
               ELSE /\ pc' = "failed"
                    /\ store' = <<>>
                    /\ resource' = NoResource
                    /\ result' = ObtainError(variant, request)
                    /\ logs' = logs \cup
                         {LogEntry("error", "Failed to obtain certificate", {"domains", "error"})}
    /\ UNCHANGED <<prev, saveLog, reader, pair, validation>>
    /\ UNCHANGED <<variant, cfg, now, registration, gate, runs, resolved, saveArgs>>

\* legoClient.Certificate.Obtain(request): lego refuses an empty domain list,
\* and reports the punycode form of the first domain as the resource's Domain
Obtain ==
    /\ pc = "obtain"
    /\ calls' = Append(calls, "obtain")
    /\ LET request == ObtainRequest(cfg) IN
        /\ obtainReq' = request
        /\ \E ok \in BOOLEAN, chain \in ObtainChains :
            /\ ok => Len(request.Domains) > 0
            /\ ~ok => chain = GarbageChain
            /\ resp' = Append(resp, Answer("obtain", ok, IF ok THEN chain ELSE NoChain))
            /\ IF ok
               THEN /\ pc' = "save"
                    /\ resource' = [Domain |-> ToASCII(Head(request.Domains)),
                                    Certificate |-> chain,
                                    PrivateKey |-> "issued-key-pem"]
                    /\ UNCHANGED <<result, logs>>
               ELSE /\ pc' = "failed"
                    /\ resource' = NoResource
                    /\ result' = ObtainError(variant, request)
                    /\ logs' = logs \cup
                         {LogEntry("error", "Failed to obtain certificate", {"domains", "error"})}
    /\ UNCHANGED <<prev, saveLog, reader, pair, validation>>
    /\ UNCHANGED <<variant, cfg, now, registration, gate, runs, resolved, saveArgs, store>>

-----------------------------------------------------------------------------
(* CertificateRecordBuilder and persistence *)

\* variant of CertV2 that names the record after the last configured domain
CertV2LastDomain(c, res) ==
    [Identifier |-> c.Domains[Len(c.Domains)],
     Domains |-> c.Domains,
     CertificateChain |-> res.Certificate,
     PrivateKey |-> res.PrivateKey,
     IssuedAt |-> UTC(NotBefore(res.Certificate)),
     ExpiresAt |-> UTC(NotAfter(res.Certificate))]

\* AcmeCertRenewal.go:476-484: the Cert handed to SecureStore.Save by V2
CertV2(c, res) ==
    [Identifier |-> res.Domain,
     Domains |-> c.Domains,
     CertificateChain |-> res.Certificate,
     PrivateKey |-> res.PrivateKey,
     IssuedAt |-> UTC(NotBefore(res.Certificate)),
     ExpiresAt |-> UTC(NotAfter(res.Certificate))]

\* part_004:249-258: the db.AcmeCert handed to DbAcme.Save by TLS
AcmeCertTLS(c, res) ==
    [Identifier |-> res.Domain,
     Domains |-> JSONMarshal(c.Domains),
     CertificateChain |-> res.Certificate,
     PrivateKey |-> res.PrivateKey,
     IssuedAt |-> UTC(NotBefore(res.Certificate)),
     ExpiresAt |-> UTC(NotAfter(res.Certificate))]

\* variant of CertHist that leaves the private key out of the record
CertHistKeyless(c, res) ==
    [Identifier |-> res.Domain,
     Domains |-> JSONMarshal(c.Domains),
     CertificateChain |-> res.Certificate,
     PrivateKey |-> "",
     IssuedAt |-> UTC(NotBefore(res.Certificate)),
     ExpiresAt |-> UTC(NotAfter(res.Certificate))]

\* part_003:210-217: the Cert handed to Writer.AddCert by Hist
CertHist(c, res) ==
    [Identifier |-> res.Domain,
     Domains |-> JSONMarshal(c.Domains),
     CertificateChain |-> res.Certificate,
     PrivateKey |-> res.PrivateKey,
     IssuedAt |-> UTC(NotBefore(res.Certificate)),
     ExpiresAt |-> UTC(NotAfter(res.Certificate))]

\* AcmeCertRenewal.go:190-193: the CertificateOutput handed to Save by V1
CertificateOutputV1(res) ==
    [CertificateChain |-> res.Certificate, PrivateKey |-> res.PrivateKey]

\* TRUE iff the leaf of the issued chain decodes and parses
LeafParses(res) == PemDecode(res.Certificate) /\ ParseCertificate(res.Certificate)

\* AcmeCertRenewal.go:463-474, part_004:223-234 and part_003:187-198: V2,
\* TLS and Hist give up when the leaf does not parse;
\* AcmeCertRenewal.go:205-215: V1 only warns
BuildFails(v, res) == v \in {"V2", "TLS", "Hist"} /\ ~LeafParses(res)

BuildError(res) ==
    IF ~PemDecode(res.Certificate)
    THEN Err("failed to decode PEM block from obtained certificate chain")
    ELSE Err("failed to parse obtained leaf certificate")

BuildLogs(v, res) ==
    IF LeafParses(res) THEN {}
    ELSE IF v = "V1"
        THEN {LogEntry("warn", "Could not read expiry for description", {})}
    ELSE {LogEntry("error", BuildError(res).msg, {"domain"})}

\* the record the save step hands to persistence
RecordOf(v, c, res) ==
    IF v = "V2" THEN CertV2(c, res)
    ELSE IF v = "TLS" THEN AcmeCertTLS(c, res)
    ELSE IF v = "Hist" THEN CertHist(c, res)
    ELSE CertificateOutputV1(res)

\* variant of ScopeOf that saves the certificate in the application scope
ScopeOfShared(v) == "application"

ScopeOf(v) ==
    IF v = "V2" THEN ScopeAcmeCertificate
    ELSE IF v = "V1" THEN CertificateOutputScope
    ELSE IF v = "Hist" THEN CertificatesTable
    ELSE AcmeCertificatesTable

\* the description string passed to SecureStore.Save: the joined domains and,
\* when the expiry is known, the expiry
DescriptionOf(v, c, res) ==
    IF v \in {"TLS", "Hist"} THEN [domains |-> <<>>, expires |-> <<>>]
    ELSE [domains |-> c.Domains,
          expires |-> IF LeafParses(res)
                      THEN <<UTC(NotAfter(res.Certificate))>> ELSE <<>>]

EntryOf(v, c, res) ==
    [scope |-> ScopeOf(v), payload |-> RecordOf(v, c, res),
     format |-> IF v \in {"TLS", "Hist"} THEN "row" ELSE "toml",
     description |-> DescriptionOf(v, c, res)]

\* the fields of the error-level log entry written when the save call fails
SaveFailureFields(v) ==
    IF v \in {"TLS", "Hist"} THEN {"identifier", "error"} ELSE {"scope", "error"}

\* the error the save step returns when the save call fails: TLS wraps the
\* store's error with the identifier, V1, V2 and Hist return the store's
\* error as is
SaveError(v) ==
    IF v = "TLS" THEN Err("failed to save ACME certificate for identifier")
    ELSE Err("store: save failed")

\* variant of Written that inserts a row whatever the table holds
WrittenAppendOnly(v, st, e) == Append(st, e)

\* variant of Written that keeps only the newest version
WrittenInPlace(v, st, e) == <<e>>

\* SecureStore.Save appends a version and Writer.AddCert (zombiezen/db.go:27-57)
\* inserts a row; DbAcme.Save (part_002:82-119) inserts or, on a conflict on
\* identifier, updates the row in place
Written(v, st, e) ==
    IF v = "TLS" /\ \E i \in 1..Len(st) : st[i].payload.Identifier = e.payload.Identifier
    THEN [i \in 1..Len(st) |->
            IF st[i].payload.Identifier = e.payload.Identifier THEN e ELSE st[i]]
    ELSE Append(st, e)

\* variant of SaveCertificate that reports success whatever the save returned
SaveCertificateOptimistic ==
    /\ pc = "save"
    /\ IF BuildFails(variant, resource)
       THEN /\ pc' = "failed"
            /\ result' = BuildError(resource)
            /\ logs' = logs \cup BuildLogs(variant, resource)
            /\ UNCHANGED <<calls, saveArgs, store, resp, saveLog>>
       ELSE LET e == EntryOf(variant, cfg, resource) IN
            /\ calls' = Append(calls, "save")
            /\ saveArgs' = Append(saveArgs, e.payload)
            /\ \E ok \in BOOLEAN :
                /\ resp' = Append(resp, Answer("save", ok, NoChain))
                /\ IF ok
                   THEN /\ pc' = "done"
                        /\ result' = Success
                        /\ store' = Written(variant, store, e)
                        /\ saveLog' = Append(saveLog, e.payload)
                        /\ logs' = logs \cup BuildLogs(variant, resource)
                   ELSE /\ pc' = "done"
                        /\ result' = Success
                        /\ UNCHANGED <<store, saveLog>>
                        /\ logs' = logs \cup BuildLogs(variant, resource) \cup
                             {LogEntry("error", "Failed to save certificate",
                                       SaveFailureFields(variant))}
    /\ UNCHANGED <<prev, reader, pair, validation>>
    /\ UNCHANGED <<variant, cfg, now, registration, gate, runs, obtainReq, resource, resolved>>

\* saveCertificate (V2), saveCertificateResource (TLS), saveCertificateConfig
\* (V1), saveCertificateHistory (Hist)
SaveCertificate ==
    /\ pc = "save"
    /\ IF BuildFails(variant, resource)
       THEN /\ pc' = "failed"
            /\ result' = BuildError(resource)
            /\ logs' = logs \cup BuildLogs(variant, resource)
            /\ UNCHANGED <<calls, saveArgs, store, resp, saveLog>>
       ELSE LET e == EntryOf(variant, cfg, resource) IN
            /\ calls' = Append(calls, "save")
            /\ saveArgs' = Append(saveArgs, e.payload)
            /\ \E ok \in BOOLEAN :
                /\ resp' = Append(resp, Answer("save", ok, NoChain))
                /\ IF ok
                   THEN /\ pc' = "done"
                        /\ result' = Success
                        /\ store' = Written(variant, store, e)
                        /\ saveLog' = Append(saveLog, e.payload)
                        /\ logs' = logs \cup BuildLogs(variant, resource)
                   ELSE /\ pc' = "failed"
                        /\ result' = SaveError(variant)
                        /\ UNCHANGED <<store, saveLog>>
                        /\ logs' = logs \cup BuildLogs(variant, resource) \cup
                             {LogEntry("error", "Failed to save certificate",
                                       SaveFailureFields(variant))}
    /\ UNCHANGED <<prev, reader, pair, validation>>
    /\ UNCHANGED <<variant, cfg, now, registration, gate, runs, obtainReq, resource, resolved>>

-----------------------------------------------------------------------------
(* Readers of the store *)

\* the versions written under a scope, oldest first
ScopeVersions(st, scope) == SelectSeq(st, LAMBDA e : e.scope = scope)

\* SecureStore.Latest(scope): the most recently written version of the scope;
\* no data when the scope was never written
Latest(st, scope) ==
    LET versions == ScopeVersions(st, scope) IN
    IF versions = <<>>
    THEN [called |-> TRUE, found |-> FALSE, payload |-> NoResource,
          err |-> "no certificate data found in secure store"]
    ELSE [called |-> TRUE, found |-> TRUE, payload |-> versions[Len(versions)].payload,
          err |-> ""]

\* variant of GetResults that returns the oldest row
GetResultsOldest(st) ==
    IF st = <<>>
    THEN {[called |-> TRUE, found |-> FALSE, payload |-> NoResource,
           err |-> "acme: no certificate found"]}
    ELSE {[called |-> TRUE, found |-> TRUE, payload |-> st[1].payload, err |-> ""]}

\* Db.Get (part_002:12-79): SELECT ... ORDER BY issued_at DESC LIMIT 1; among
\* rows with the same issued_at the database is free to return any
GetResults(st) ==
    IF st = <<>>
    THEN {[called |-> TRUE, found |-> FALSE, payload |-> NoResource,
           err |-> "acme: no certificate found"]}
    ELSE {[called |-> TRUE, found |-> TRUE, payload |-> st[i].payload, err |-> ""] :
            i \in {j \in 1..Len(st) :
                     \A k \in 1..Len(st) :
                        st[k].payload.IssuedAt.instant <= st[j].payload.IssuedAt.instant}}

\* config.ScopeApplication, the scope of the application configuration
ScopeApplication == "application"
\* the table the file-based update-app-certificate command reads and writes
AppConfigTable == "app_config"

\* a TOML document holding an application configuration; extra says that the
\* document also has comments or keys the config struct does not know
TomlDoc(c, extra) == [toml |-> "ok", config |-> c, extra |-> extra]

\* toml.Unmarshal into config.Config: fails on a document that is not TOML,
\* keeps the fields of the struct and drops everything else
TomlUnmarshal(d) == [ok |-> d.toml = "ok", config |-> d.config]

\* toml.Marshal of a config.Config: the fields of the struct and nothing else
TomlMarshal(c) == TomlDoc(c, FALSE)

\* variant of WithCertificate that also resets the listen address
WithCertificateOnly(c, chain, key) ==
    [Server |-> [Addr |-> "", CertData |-> chain, KeyData |-> key]]

\* appCfg.Server.CertData = certData.CertificateChain;
\* appCfg.Server.KeyData = certData.PrivateKey
WithCertificate(c, chain, key) ==
    [c EXCEPT !.Server.CertData = chain, !.Server.KeyData = key]

\* the version the command saves
AppVersion(scope, c, desc) ==
    [scope |-> scope, payload |-> TomlMarshal(c), format |-> "toml",
     description |-> desc]

\* the number of versions of the application configuration after which the
\* command is not run again
MaxAppVersions == 3

\* what a run of the command left behind: the certificate it read and the
\* error it exited with ("" for exit status 0)
Exit(r, e) == [r EXCEPT !.err = e]

\* update-app-certificate (part_007:65-130): reads the latest certificate and
\* the latest application configuration, puts the certificate and its key in
\* the configuration and saves it as a new version
UpdateAppCertificate ==
    /\ variant \in {"V1", "V2"}
    /\ pc \in {"idle", "done", "failed"}
    /\ Len(ScopeVersions(store, ScopeApplication)) < MaxAppVersions
    /\ LET cert == Latest(store, CertificateScope)
           app == Latest(store, ScopeApplication) IN
       IF ~cert.found
       THEN reader' = cert /\ store' = store
       ELSE IF ~app.found
       THEN /\ reader' = Exit(cert, "no existing application configuration found in secure store")
            /\ store' = store
       ELSE IF ~TomlUnmarshal(app.payload).ok
       THEN /\ reader' = Exit(cert, "failed to unmarshal application config TOML data")
            /\ store' = store
       ELSE \E ok \in BOOLEAN :
               IF ok
               THEN /\ reader' = cert
                    /\ store' = Append(store,
                          AppVersion(ScopeApplication,
                                     WithCertificate(TomlUnmarshal(app.payload).config,
                                                     cert.payload.CertificateChain,
                                                     cert.payload.PrivateKey),
                                     [identifier |-> cert.payload.Identifier]))
               ELSE /\ reader' = Exit(cert, "failed to save updated application config via SecureConfig")
                    /\ store' = store
    /\ reader' # reader \/ store' # store
    /\ UNCHANGED <<variant, cfg, now, pc, runs, calls, obtainReq, resource, resolved,
                   registration, gate, saveArgs, logs, result,
                   resp, prev, saveLog, pair, validation>>

\* cmd/acme (src/cmd/acme/main.go:84): dbConn.Get() loads the existing certificate
LoadExistingCertificate ==
    /\ variant = "TLS"
    /\ pc \in {"idle", "done", "failed"}
    /\ reader' \in GetResults(store)
    /\ reader' # reader
    /\ UNCHANGED <<variant, cfg, now, pc, runs, calls, obtainReq, resource, resolved,
                   registration, gate, saveArgs, store, logs, result,
                   resp, prev, saveLog, pair, validation>>

-----------------------------------------------------------------------------

Next ==
    \/ Invoke
    \/ ValidateConfig
    \/ ParseAccountKey
    \/ NewClient
    \/ ResolveProvider
    \/ SetDNS01Provider
    \/ Register
    \/ Obtain
    \/ SaveCertificate
    \/ UpdateAppCertificate
    \/ LoadExistingCertificate

Spec == Init /\ [][Next]_vars

-----------------------------------------------------------------------------
(* Phases of the orchestrator (the state machine of the design), read off   *)
(* the position of the invocation                                          *)

Phase ==
    CASE pc = "idle" -> "Idle"
      [] pc \in {"validate", "parseKey", "newClient"} -> "ValidatingConfig"
      [] pc \in {"resolve", "setProvider"} -> "ResolvingProvider"
      [] pc = "register" -> "RegisteringAccount"
      [] pc = "obtain" -> "Obtaining"
      [] pc = "save" -> "Persisting"
      [] pc = "done" -> "Done"
      [] pc = "failed" -> "Failed"

Terminal == pc \in {"done", "failed"}

\* number of times op occurs in the call list
RECURSIVE Count(_, _)
Count(seq, op) ==
    IF seq = <<>> THEN 0
    ELSE (IF Head(seq) = op THEN 1 ELSE 0) + Count(Tail(seq), op)

Called(op) == \E i \in 1..Len(calls) : calls[i] = op

TypeOK ==
    /\ variant \in Variants
    /\ pc \in {"idle", "validate", "parseKey", "newClient", "resolve", "setProvider",
               "register", "obtain", "save", "done", "failed"}
    /\ runs \in 0..MaxRuns
    /\ result.status \in {"pending", "ok", "err"}

-----------------------------------------------------------------------------
(* Helpers of the properties *)

NetworkCalls == {"newClient", "register", "obtain"}

NoNetworkCall == \A i \in 1..Len(calls) : calls[i] \notin NetworkCalls

\* a required field of the configuration is missing or empty
RequiredMissing(v, c) ==
    \/ c.Email = ""
    \/ Len(c.Domains) = 0
    \/ c.CADirectoryURL = ""
    \/ c.AcmeAccountPrivateKey = ""
    \/ v = "TLS" /\ (c.DNSProvider = "" \/ c.CloudflareApiToken = "")
    \/ v \in {"V1", "V2", "Hist"} /\ DOMAIN c.DNSProviders = {}
    \/ v = "V2" /\ c.ActiveDNSProvider = ""

ConfigurationErrors ==
    { "unsupported DNS provider configured",
      "cloudflare API token is missing",
      "no domains configured for ACME renewal",
      "ACME account private key is missing",
      "failed to parse ACME account private key",
      "ActiveDNSProvider field is missing or empty in ACME configuration",
      "configured ActiveDNSProvider not found in DNSProviders map",
      "required DNS provider not found in configuration" }

\* the Obtain call of this run returned a resource
ObtainSucceeded == Called("obtain") /\ resource # NoResource

\* the errors Handle returns when a call to the CA fails
ProtocolErrors ==
    { "failed to create ACME client",
      "ACME registration failed",
      "failed to obtain ACME certificate",
      "failed to obtain certificate for domains" }

\* the credentials from which the run builds its solver
ProviderTokenOf(v, c) ==
    IF v = "TLS" THEN c.CloudflareApiToken
    ELSE IF v = "V2" THEN c.DNSProviders[c.ActiveDNSProvider]
    ELSE c.DNSProviders[DNSProviderCloudflare]

-----------------------------------------------------------------------------
(* C1: a disabled configuration makes Handle a successful no-op: the run   *)
(* is Done with a nil error and has made no external call at all (no key   *)
(* parsing, no provider construction, no register, no obtain, no save),    *)
(* whatever the other fields and the existing certificate are.             *)
C1_DisabledIsNoOp ==
    (~cfg.Enabled /\ pc \notin {"idle", "validate"}) =>
        /\ pc = "done"
        /\ result = Success
        /\ calls = <<>>
        /\ saveArgs = <<>>
        /\ store = <<>>

C1_Witness ==
    /\ ~cfg.Enabled
    /\ pc = "done"
    /\ runs = 2
    /\ cfg.Email = ""
    /\ cfg.AcmeAccountPrivateKey = "ec-p256-pem"
    /\ cfg.CertData = Leaf(-80 * HoursPerDay, 10 * HoursPerDay)

(* C2: an enabled configuration with a missing required field ends in      *)
(* Failed with a configuration error and makes no network-facing call      *)
(* (client creation, register, obtain).                                    *)
C2_MissingFieldNoNetwork ==
    (cfg.Enabled /\ RequiredMissing(variant, cfg)) =>
        /\ NoNetworkCall
        /\ Terminal => (pc = "failed" /\ result.msg \in ConfigurationErrors)

(* C3: when Obtain fails the run is Failed, the save was never invoked and *)
(* the returned error contains the attempted domain set.                   *)
C3_ObtainFailureNamesDomains ==
    (Called("obtain") /\ resource = NoResource) =>
        /\ pc = "failed"
        /\ ~Called("save")
        /\ saveArgs = <<>>
        /\ result.status = "err"
        /\ result.names
        /\ result.domains = obtainReq.Domains

(* C4: when the save fails after a successful Obtain the run is Failed,    *)
(* the error differs from every other fatal error, an error-level log      *)
(* entry carries the record's identifier and expiry, and the save is not   *)
(* retried.                                                                *)
C4_SaveFailureReported ==
    Called("save") /\ pc # "done" =>
        /\ pc = "failed"
        /\ Count(calls, "save") = 1
        /\ result.status = "err"
        /\ result.msg \notin ConfigurationErrors \cup
              { "failed to create ACME client", "failed to create Cloudflare provider",
                "failed to set DNS01 provider", "ACME registration failed",
                "failed to obtain ACME certificate",
                "failed to obtain certificate for domains",
                "failed to decode PEM block from obtained certificate chain",
                "failed to parse obtained leaf certificate" }
        /\ \E l \in logs :
              l.level = "error" /\ {"identifier", "expiry"} \subseteq l.fields

(* C5: when the leading PEM block of the issued chain does not decode or   *)
(* does not parse, record building fails, the run is Failed and the save   *)
(* is never invoked with that material.                                    *)
C5_MalformedLeafNotSaved ==
    (ObtainSucceeded /\ ~LeafParses(resource) /\ pc # "save") =>
        /\ pc = "failed"
        /\ ~Called("save")
        /\ saveArgs = <<>>

-----------------------------------------------------------------------------
(* Phase order *)

NextPhase ==
    { <<"ValidatingConfig", "ResolvingProvider">>,
      <<"ResolvingProvider", "RegisteringAccount">>,
      <<"RegisteringAccount", "Obtaining">>,
      <<"Obtaining", "Persisting">>,
      <<"Persisting", "Done">> }

NonTerminalPhases ==
    {"ValidatingConfig", "ResolvingProvider", "RegisteringAccount", "Obtaining", "Persisting"}

\* a step of Handle inside one invocation (every such step moves pc; the
\* readers of the store and a new invocation are not such steps)
HandleStep == runs' = runs /\ pc' # pc

\* a step inside one invocation follows the chain of phases or enters Failed
ChainStep ==
    \/ Phase' = Phase /\ Phase \in NonTerminalPhases
    \/ <<Phase, Phase'>> \in NextPhase
    \/ Phase \in NonTerminalPhases /\ Phase' = "Failed"

\* the two short cuts of ValidatingConfig: disabled, or nothing to renew
ShortCut ==
    /\ Phase = "ValidatingConfig"
    /\ Phase' = "Done"
    /\ calls = <<>>
    /\ \/ Disabled(cfg)
       \/ ~certificateNeedsRenewal(cfg.CertData, cfg.RenewalDaysBeforeExpiry, now)

(* C6, as stated: inside one invocation the phases occur only in the order  *)
(* ValidatingConfig, ResolvingProvider, RegisteringAccount, Obtaining,     *)
(* Persisting, Done, none skipped or re-entered; Failed is entered only    *)
(* from a non-terminal phase; Done and Failed have no outgoing transition. *)
C6_PhaseOrderStrict == [][HandleStep => ChainStep]_vars

(* C6, amended: as above, except that ValidatingConfig goes directly to    *)
(* Done, before any external call, when the configuration is disabled or   *)
(* the existing certificate does not need renewal.                         *)
C6_PhaseOrder == [][HandleStep => (ChainStep \/ ShortCut)]_vars

C6_Witness ==
    /\ pc = "done"
    /\ calls = <<"parseKey", "newClient", "newProvider", "setProvider",
                 "register", "obtain", "save">>

(* C7: a run that needed renewal and in which every call succeeded has     *)
(* invoked Obtain exactly once, with the complete configured domain list   *)
(* in configured order and Bundle set, and the save exactly once, after    *)
(* Obtain returned; in no run is either invoked twice or the save invoked  *)
(* before Obtain.                                                          *)
C7_ObtainOnceSaveOnce ==
    /\ Count(calls, "obtain") <= 1
    /\ Count(calls, "save") <= 1
    /\ \A i \in 1..Len(calls) :
          calls[i] = "save" => \E j \in 1..(i - 1) : calls[j] = "obtain"
    /\ Called("obtain") => obtainReq = [Domains |-> cfg.Domains, Bundle |-> TRUE]
    /\ (pc = "done" /\ calls # <<>>) =>
          /\ Count(calls, "obtain") = 1
          /\ Count(calls, "save") = 1
          /\ Len(saveArgs) = 1

C7_Witness ==
    /\ variant = "TLS"
    /\ cfg.RenewalDaysBeforeExpiry = 30
    /\ cfg.CertData = Leaf(-80 * HoursPerDay, 10 * HoursPerDay)
    /\ cfg.Domains = <<"example.com", "*.example.com">>
    /\ pc = "done"
    /\ Called("obtain")
    /\ Called("save")
    /\ store # <<>>

\* the iterations whose record has an Identifier field
HasIdentifier == variant \in {"V2", "TLS", "Hist"}

(* C8, as stated: every record handed to persistence has an identifier     *)
(* equal to the first configured domain.                                   *)
C8_IdentifierIsFirstDomain ==
    HasIdentifier =>
        \A i \in 1..Len(saveArgs) : saveArgs[i].Identifier = cfg.Domains[1]

(* C8, amended: every record handed to persistence has an identifier equal *)
(* to the Domain of the resource Obtain returned in the same run, which is *)
(* the ASCII (punycode) form of the first configured domain; every record  *)
(* stored by successful runs with the same configuration has that same     *)
(* identifier.                                                             *)
C8_IdentifierIsResourceDomain ==
    HasIdentifier =>
        /\ \A i \in 1..Len(saveArgs) :
              /\ saveArgs[i].Identifier = resource.Domain
              /\ saveArgs[i].Identifier = ToASCII(cfg.Domains[1])
        /\ \A i \in 1..Len(store) :
              store[i].payload.Identifier = ToASCII(cfg.Domains[1])

C8_Witness ==
    /\ variant = "V2"
    /\ runs = 2
    /\ pc = "done"
    /\ Len(store) = 2
    /\ Len(cfg.Domains) = 2
    /\ store[1].payload.Identifier = store[2].payload.Identifier

(* C9: when the active-provider selector names a key absent from the       *)
(* provider map, the run fails during provider resolution and no network   *)
(* call (ACME client creation, register, obtain) was made before.          *)
C9_AbsentProviderNoNetwork ==
    (variant = "V2" /\ cfg.ActiveDNSProvider # ""
        /\ cfg.ActiveDNSProvider \notin DOMAIN cfg.DNSProviders) =>
        /\ NoNetworkCall
        /\ Terminal =>
              /\ pc = "failed"
              /\ result.msg = "configured ActiveDNSProvider not found in DNSProviders map"

(* C10: getDNSProvider returns an error and a nil solver for every name    *)
(* other than a supported one, whatever the credentials, and returns a     *)
(* solver only for a supported name whose construction succeeded.          *)
C10_ResolverRejectsUnknown ==
    resolved.called =>
        /\ resolved.name # DNSProviderCloudflare =>
              (resolved.provider = "" /\ resolved.failed)
        /\ resolved.provider # "" =>
              /\ resolved.name = DNSProviderCloudflare
              /\ NewDNSProviderConfig(resolved.token)
              /\ ~resolved.failed
        /\ resolved.failed => (pc = "failed" /\ ~Called("register"))

C10_Witness ==
    /\ resolved.called
    /\ resolved.name = "route53"
    /\ resolved.token = "cf-token"
    /\ resolved.failed
    /\ pc = "failed"

-----------------------------------------------------------------------------
(* C11: when the construction of the solver fails because the credentials  *)
(* are rejected, the run is Failed before Register or Obtain is invoked    *)
(* (the solver is not installed, nothing is saved), and the error is the   *)
(* provider-construction error, which is none of the errors returned for   *)
(* a failure of the CA protocol or of the configuration checks.            *)
C11_SolverFailureBeforeProtocol ==
    (Called("newProvider") /\ ~NewDNSProviderConfig(ProviderTokenOf(variant, cfg))) =>
        /\ pc = "failed"
        /\ result = Err("failed to create Cloudflare provider")
        /\ result.msg \notin ProtocolErrors \cup ConfigurationErrors
        /\ ~Called("setProvider")
        /\ ~Called("register")
        /\ ~Called("obtain")
        /\ ~Called("save")

C11_Witness ==
    /\ variant = "V2"
    /\ resolved.called
    /\ resolved.name = DNSProviderCloudflare
    /\ resolved.token = ""
    /\ resolved.failed
    /\ pc = "failed"
    /\ Called("newClient")
    /\ calls[Len(calls)] = "newProvider"

\* the scopes and tables that hold certificate records
CertificateScopes ==
    {ScopeAcmeCertificate, CertificateOutputScope, AcmeCertificatesTable, CertificatesTable}

(* C12: every run that gets past RegisteringAccount has invoked Register,  *)
(* and invoked it before Obtain, in a first run as in a later one: no run  *)
(* skips the call because an earlier run registered; the store holds       *)
(* certificate records only, never the registration; and when Register    *)
(* fails the run is Failed and neither Obtain nor the save is invoked.     *)
C12_RegisterEveryRun ==
    /\ pc \in {"obtain", "save"} => Called("register")
    /\ (pc = "done" /\ calls # <<>>) => Called("register")
    /\ \A i \in 1..Len(calls) :
          calls[i] = "obtain" => \E j \in 1..(i - 1) : calls[j] = "register"
    /\ pc \in {"register", "validate", "parseKey", "newClient", "resolve", "setProvider"} =>
          registration = "nil"
    /\ \A i \in 1..Len(store) :
          /\ store[i].scope \in CertificateScopes
          /\ DOMAIN store[i].payload \subseteq
                {"Identifier", "Domains", "CertificateChain", "PrivateKey",
                 "IssuedAt", "ExpiresAt"}
    /\ (Called("register") /\ registration = "nil") =>
          /\ pc = "failed"
          /\ result = Err("ACME registration failed")
          /\ ~Called("obtain")
          /\ ~Called("save")
          /\ saveArgs = <<>>

C12_Witness ==
    /\ runs = 2
    /\ store # <<>>
    /\ pc = "obtain"
    /\ registration = "account"
    /\ calls[Len(calls)] = "register"

(* C13: inside one invocation Register, Obtain and the save are each       *)
(* invoked at most once, whichever of the calls succeed or fail: no call   *)
(* is repeated after a failure and at most one record is handed to the     *)
(* save.                                                                   *)
C13_NoRetry ==
    /\ \A op \in {"register", "obtain", "save"} : Count(calls, op) <= 1
    /\ Len(saveArgs) <= 1
    /\ Len(saveArgs) = Count(calls, "save")

C13_Witness ==
    /\ variant = "Hist"
    /\ pc = "failed"
    /\ registration = "nil"
    /\ Count(calls, "register") = 1
    /\ result = Err("ACME registration failed")

-----------------------------------------------------------------------------
(* ExpiryGate *)

\* the expiry check was made on data whose leading block is a certificate
GateParsable ==
    gate.called /\ PemDecode(gate.data) /\ ParseCertificate(gate.data)

\* the time from the moment of the check to the not-after of the checked leaf
GateHoursLeft == gate.data.notAfter - gate.at

(* C14: for every threshold T and every certificate that decodes and       *)
(* parses, the expiry check answers true exactly when the time left until  *)
(* not-after, in days of 24 hours with fractions kept, is strictly less    *)
(* than T: exactly T days left gives false, and an expired certificate     *)
(* gives true for every T >= 0.                                            *)
C14_RenewalIffLessThanThreshold ==
    GateParsable =>
        /\ gate.needs <=> (GateHoursLeft < gate.threshold * HoursPerDay)
        /\ GateHoursLeft = gate.threshold * HoursPerDay => ~gate.needs
        /\ (GateHoursLeft < 0 /\ gate.threshold >= 0) => gate.needs
        /\ ~gate.failed

C14_Witness ==
    /\ GateParsable
    /\ gate.threshold = 30
    /\ GateHoursLeft = 30 * HoursPerDay
    /\ ~gate.needs
    /\ pc = "done"

(* C15: for every threshold T, zero and negative included, the expiry      *)
(* check answers true, without an error, when the existing chain is empty. *)
C15_EmptyChainNeedsRenewal ==
    (gate.called /\ gate.data.raw = "empty") =>
        /\ gate.needs
        /\ ~gate.failed

C15_Witness ==
    /\ gate.called
    /\ gate.data = NoChain
    /\ gate.threshold = -1
    /\ gate.needs
    /\ pc = "parseKey"

C17_GateShortCircuit ==
    /\ (gate.called /\ ~gate.needs) =>
          /\ GateParsable
          /\ pc = "done"
          /\ result = Success
          /\ calls = <<>>
          /\ saveArgs = <<>>
    /\ (variant = "TLS" /\ GateReached(cfg) /\ pc \notin {"idle", "validate"}
          /\ cfg.CertData.raw = "cert"
          /\ cfg.CertData.notAfter - now >= cfg.RenewalDaysBeforeExpiry * HoursPerDay) =>
          /\ pc = "done"
          /\ result = Success
          /\ calls = <<>>
    /\ (gate.called /\ gate.data.raw = "empty") =>
          /\ gate.needs
          /\ pc = "done" => (Called("register") /\ Called("obtain") /\ Called("save"))
          /\ cfg.AcmeAccountPrivateKey # "" => (pc = "parseKey" \/ Called("parseKey"))
    /\ variant # "TLS" =>
          /\ ~gate.called
          /\ pc = "done" => (Called("register") /\ Called("obtain") /\ Called("save"))

C17_Witness ==
    /\ gate.called
    /\ gate.data = Leaf(-30 * HoursPerDay, 60 * HoursPerDay)
    /\ gate.threshold = 30
    /\ ~gate.needs
    /\ pc = "done"
    /\ runs = 2
    /\ store = <<>>

-----------------------------------------------------------------------------
(* CertificateRecordBuilder *)

\* the iterations whose record carries the validity of the leaf
HasValidity == variant \in {"V2", "TLS", "Hist"}

(* C18: the record built from an issued leaf with not-before D1 and        *)
(* not-after D2 has IssuedAt at the instant D1 and ExpiresAt at the        *)
(* instant D2, both located in UTC, whatever zone the certificate writes   *)
(* its times in; the stored record has the same values.                    *)
C18_ValidityInUTC ==
    HasValidity =>
        /\ \A i \in 1..Len(saveArgs) :
              /\ saveArgs[i].IssuedAt =
                    [instant |-> resource.Certificate.notBefore, loc |-> "UTC"]
              /\ saveArgs[i].ExpiresAt =
                    [instant |-> resource.Certificate.notAfter, loc |-> "UTC"]
        /\ \A i \in 1..Len(store) :
              /\ store[i].payload.IssuedAt.loc = "UTC"
              /\ store[i].payload.ExpiresAt.loc = "UTC"
              /\ store[i].payload.IssuedAt.instant =
                    store[i].payload.CertificateChain.notBefore
              /\ store[i].payload.ExpiresAt.instant =
                    store[i].payload.CertificateChain.notAfter

C18_Witness ==
    /\ variant = "Hist"
    /\ pc = "done"
    /\ Len(saveArgs) = 1
    /\ resource.Certificate.zone = "+01:00"
    /\ saveArgs[1].IssuedAt = [instant |-> -1, loc |-> "UTC"]
    /\ store # <<>>

\* the domains value of a record: the list itself (V2) or its JSON text
DomainsValue(v, ds) == IF v = "V2" THEN ds ELSE JSONMarshal(ds)

(* C19: every record handed to persistence carries the certificate chain   *)
(* and the private key exactly as the Obtain call of the same run returned *)
(* them, both present, and, where the record has a domains value, that     *)
(* value is the configured domain list in configured order.                *)
C19_RecordCarriesIssuedMaterial ==
    \A i \in 1..Len(saveArgs) :
        /\ ObtainSucceeded
        /\ saveArgs[i].CertificateChain = resource.Certificate
        /\ saveArgs[i].PrivateKey = resource.PrivateKey
        /\ saveArgs[i].CertificateChain.raw # "empty"
        /\ saveArgs[i].PrivateKey # ""
        /\ HasIdentifier => saveArgs[i].Domains = DomainsValue(variant, cfg.Domains)

C19_Witness ==
    /\ variant = "Hist"
    /\ Len(saveArgs) = 1
    /\ cfg.Domains = <<"example.com", "*.example.com">>
    /\ saveArgs[1].Domains = JSONMarshal(<<"example.com", "*.example.com">>)
    /\ saveArgs[1].PrivateKey = "issued-key-pem"
    /\ pc = "failed"

(* C20: every record that reaches the save has ExpiresAt later than        *)
(* IssuedAt, for every certificate Obtain can return.                      *)
C20_ExpiresAfterIssued ==
    HasValidity =>
        \A i \in 1..Len(saveArgs) :
            saveArgs[i].ExpiresAt.instant > saveArgs[i].IssuedAt.instant

-----------------------------------------------------------------------------
(* Stores *)

\* the iterations whose store keeps every version: the secure store (V1, V2)
\* and the certificates table (Hist)
AppendStore == variant \in {"V1", "V2", "Hist"}

\* every version present before the step is present, unchanged, after it, and
\* a step that writes adds exactly one version, the record handed to the save
VersionsKept ==
    /\ Len(store') >= Len(store)
    /\ \A i \in 1..Len(store) : store'[i] = store[i]
    /\ store' # store =>
          /\ Len(store') = Len(store) + 1
          /\ store'[Len(store')].payload = saveArgs'[Len(saveArgs')]
          /\ store'[Len(store')].scope = ScopeOf(variant)

\* Latest on the scope the iteration writes returns the payload of the most
\* recent successful save, and no data when there was none
LatestIsLastSave ==
    LET r == Latest(store, ScopeOf(variant)) IN
    /\ r.found <=> saveLog # <<>>
    /\ r.found => r.payload = saveLog[Len(saveLog)]
    /\ ~r.found => r.err # ""

(* C21: on the stores that append, after any sequence of successful saves  *)
(* every version written before is still present and unchanged (a save     *)
(* adds one version and overwrites none), and Latest on the scope returns  *)
(* the payload of the most recent save, or no data with an error when the  *)
(* scope was never written.                                                *)
C21_SaveAppendsLatestReadsLast ==
    [][AppendStore => (VersionsKept /\ (variant # "Hist" => LatestIsLastSave'))]_vars

C21_Witness ==
    /\ variant = "V2"
    /\ Len(store) = 2
    /\ Len(saveLog) = 2
    /\ store[1].payload.CertificateChain # store[2].payload.CertificateChain
    /\ reader.found
    /\ reader.payload = store[2].payload
    /\ Latest(store, ScopeAcmeCertificate).payload = saveLog[2]

-----------------------------------------------------------------------------
(* Two invocations of Handle at the same time: two handlers, each with its  *)
(* own configuration, working on the same store.  The steps of Handle      *)
(* before Obtain touch nothing the invocations share and are one step.     *)

Procs == {1, 2}

\* the iterations whose store has a reader in the repository
PairVariants == {"V2", "TLS"}

\* a configuration with which Handle gets as far as Obtain
Usable(v, c) ==
    /\ c.Enabled
    /\ c.Email # ""
    /\ c.CADirectoryURL # ""
    /\ ParsePEMPrivateKey(c.AcmeAccountPrivateKey)
    /\ ~ResolveOutcome(v, c).failed
    /\ v = "TLS" => (GateReached(c) /\ c.CertData = NoChain /\ c.RenewalDaysBeforeExpiry = 30)
    /\ v = "V2" => DOMAIN c.DNSProviders = {DNSProviderCloudflare}

PairConfig(v, ds) == CHOOSE c \in ConfigsOf(v) : Usable(v, c) /\ c.Domains = ds

\* the first invocation renews example.com; the second one renews another
\* certificate or the same one
PairDomains == <<{<<"example.com", "*.example.com">>},
                 {<<"u-name.example">>, <<"example.com", "*.example.com">>}>>

\* the errors of the steps between key parsing and Obtain
PrepareErrors ==
    {"failed to create ACME client", "failed to set DNS01 provider",
     "ACME registration failed"}

PairStart(c) ==
    [cfg |-> c, pc |-> "prepare", resource |-> NoResource, record |-> NoResource,
     result |-> Pending]

InitPair ==
    /\ variant \in PairVariants
    /\ cfg = PairConfig(variant, <<"example.com", "*.example.com">>)
    /\ now = 0
    /\ pc = "idle"
    /\ runs = 0
    /\ calls = <<>>
    /\ obtainReq = NoRequest
    /\ resource = NoResource
    /\ resolved = NoResolve
    /\ registration = "nil"
    /\ gate = NoGate
    /\ saveArgs = <<>>
    /\ store = <<>>
    /\ logs = {}
    /\ result = Pending
    /\ resp = <<>>
    /\ prev = NoPrev
    /\ saveLog = <<>>
    /\ reader = NoRead
    /\ validation = NoValidation
    /\ \E d1 \in PairDomains[1], d2 \in PairDomains[2] :
          pair = <<PairStart(PairConfig(variant, d1)), PairStart(PairConfig(variant, d2))>>

\* what the steps of an invocation of the pair leave alone
PairFrame ==
    UNCHANGED <<variant, cfg, now, pc, runs, calls, obtainReq, resource, resolved,
                registration, gate, saveArgs, logs, result, resp, prev, reader,
                validation>>

\* Handle up to and including Register (AcmeCertRenewal.go:341-408)
PairPrepare(p) ==
    /\ pair[p].pc = "prepare"
    /\ \E ok \in BOOLEAN, m \in PrepareErrors :
          pair' = [pair EXCEPT ![p] =
                     IF ok THEN [@ EXCEPT !.pc = "obtain"]
                     ELSE [@ EXCEPT !.pc = "failed", !.result = Err(m)]]
    /\ UNCHANGED <<store, saveLog>>
    /\ PairFrame

\* legoClient.Certificate.Obtain(request) (AcmeCertRenewal.go:411-422)
PairObtain(p) ==
    /\ pair[p].pc = "obtain"
    /\ LET request == ObtainRequest(pair[p].cfg) IN
       \E ok \in BOOLEAN, chain \in ObtainChains :
          /\ ~ok => chain = GarbageChain
          /\ pair' = [pair EXCEPT ![p] =
                IF ok
                THEN [@ EXCEPT !.pc = "save",
                               !.resource = [Domain |-> ToASCII(Head(request.Domains)),
                                             Certificate |-> chain,
                                             PrivateKey |-> "issued-key-pem"]]
                ELSE [@ EXCEPT !.pc = "failed",
                               !.result = ObtainError(variant, request)]]
    /\ UNCHANGED <<store, saveLog>>
    /\ PairFrame

\* saveCertificate / saveCertificateResource: the save call is one call to the
\* store (one SQL statement in Db.Save)
PairSave(p) ==
    /\ pair[p].pc = "save"
    /\ IF BuildFails(variant, pair[p].resource)
       THEN /\ pair' = [pair EXCEPT ![p] =
                          [@ EXCEPT !.pc = "failed",
                                    !.result = BuildError(pair[p].resource)]]
            /\ UNCHANGED <<store, saveLog>>
       ELSE LET e == EntryOf(variant, pair[p].cfg, pair[p].resource) IN
            \E ok \in BOOLEAN :
               IF ok
               THEN /\ pair' = [pair EXCEPT ![p] =
                                  [@ EXCEPT !.pc = "done", !.record = e.payload,
                                            !.result = Success]]
                    /\ store' = Written(variant, store, e)
                    /\ saveLog' = Append(saveLog, e.payload)
               ELSE /\ pair' = [pair EXCEPT ![p] =
                                  [@ EXCEPT !.pc = "failed", !.record = e.payload,
                                            !.result = SaveError(variant)]]
                    /\ UNCHANGED <<store, saveLog>>
    /\ PairFrame

NextPair ==
    \/ \E p \in Procs : PairPrepare(p)
    \/ \E p \in Procs : PairObtain(p)
    \/ \E p \in Procs : PairSave(p)
    \/ UpdateAppCertificate
    \/ LoadExistingCertificate

SpecPair == InitPair /\ [][NextPair]_vars

-----------------------------------------------------------------------------
(* Concurrent invocations and the upsert store *)

\* the two invocations renew certificates with different identifiers
DifferentIdentifiers ==
    ToASCII(Head(pair[1].cfg.Domains)) # ToASCII(Head(pair[2].cfg.Domains))

\* a read of the store can return the record: Db.Get for the table of the
\* TLS iteration, Latest on the certificate scope for the secure store
Retrievable(rec) ==
    IF variant = "TLS"
    THEN \E r \in GetResults(store) : r.found /\ r.payload = rec
    ELSE LET r == Latest(store, CertificateScope) IN r.found /\ r.payload = rec

SavesOf(id) == SelectSeq(saveLog, LAMBDA r : r.Identifier = id)

(* C28: after any sequence of saves on the upsert store, also of two       *)
(* invocations that save for the same identifier at the same time, the     *)
(* store holds one record for every identifier saved and no more, and that *)
(* record is the argument of the last successful save for the identifier.  *)
C28_UpsertKeepsLastPerIdentifier ==
    variant = "TLS" =>
        /\ \A i, j \in 1..Len(store) :
              store[i].payload.Identifier = store[j].payload.Identifier => i = j
        /\ \A i \in 1..Len(store) :
              LET saves == SavesOf(store[i].payload.Identifier) IN
              /\ saves # <<>>
              /\ store[i].payload = saves[Len(saves)]
        /\ \A k \in 1..Len(saveLog) :
              \E i \in 1..Len(store) :
                 store[i].payload.Identifier = saveLog[k].Identifier

C28_Witness ==
    /\ variant = "TLS"
    /\ pair # NoPair
    /\ ~DifferentIdentifiers
    /\ \A p \in Procs : pair[p].pc = "done"
    /\ Len(saveLog) = 2
    /\ saveLog[1] # saveLog[2]
    /\ Len(store) = 1
    /\ store[1].payload = saveLog[2]

(* C29: Get returns the stored record with the greatest issued_at, returns *)
(* the error "acme: no certificate found" exactly when the store holds no  *)
(* record, and the record it returns is the most recently written one.     *)
C29_GetReturnsLastWritten ==
    [][(variant = "TLS" /\ reader' # reader) =>
          /\ reader'.found <=> store # <<>>
          /\ ~reader'.found => reader'.err = "acme: no certificate found"
          /\ reader'.found =>
                /\ \A i \in 1..Len(store) :
                      store[i].payload.IssuedAt.instant <=
                         reader'.payload.IssuedAt.instant
                /\ reader'.payload = saveLog[Len(saveLog)]]_vars

-----------------------------------------------------------------------------
(* What an invocation keeps *)

\* the external calls of this invocation were answered as those of the
\* previous invocation, call by call
SameAnswers ==
    \A i \in 1..Len(resp) :
       i <= Len(prev.resp) => resp[i] = prev.resp[i]

(* C23: Handle leaves the configuration and the handler's fields unchanged *)
(* and keeps nothing from one invocation to the next: every invocation     *)
(* starts without account registration, calls, Obtain request or issued    *)
(* resource, and an invocation whose external calls are answered as those  *)
(* of the previous invocation makes the same sequence of external calls    *)
(* and ends with the same outcome.                                         *)
C23_HandleKeepsNothing ==
    [][/\ cfg' = cfg
       /\ variant' = variant
       /\ runs' # runs =>
             /\ registration' = "nil"
             /\ calls' = <<>>
             /\ resp' = <<>>
             /\ obtainReq' = NoRequest
             /\ resource' = NoResource
             /\ saveArgs' = <<>>
       /\ (prev'.ran /\ Terminal' /\ SameAnswers') =>
             /\ calls' = prev'.calls
             /\ result' = prev'.result]_vars

C23_Witness ==
    /\ variant = "V2"
    /\ prev.ran
    /\ pc = "done"
    /\ SameAnswers
    /\ Called("save")
    /\ calls = prev.calls
    /\ prev.result = Success

-----------------------------------------------------------------------------
(* Errors of failed invocations *)

(* C24: every invocation that ends in Failed, whichever step failed,       *)
(* returns an error with a text for the step and with the domain list of   *)
(* the configuration in it.                                                *)
C24_FailureNamesPhaseAndDomains ==
    pc = "failed" =>
        /\ result.status = "err"
        /\ result.msg # ""
        /\ result.names
        /\ result.domains = cfg.Domains

-----------------------------------------------------------------------------
(* Validation of a configuration *)

\* config.go:22-51  Config.Validate; "" stands for nil
Validate(c) ==
    IF ~c.Enabled THEN ""
    ELSE IF c.Email = "" THEN "config: email cannot be empty when enabled"
    ELSE IF Len(c.Domains) = 0 THEN "config: domains cannot be empty when enabled"
    ELSE IF c.DNSProvider = "" THEN "config: dns_provider cannot be empty when enabled"
    ELSE IF c.DNSProvider = "cloudflare" /\ c.CloudflareApiToken = ""
        THEN "config: cloudflare_api_token cannot be empty when dns_provider is 'cloudflare'"
    ELSE IF c.AcmeAccountPrivateKey = ""
        THEN "config: acme_account_private_key cannot be empty when enabled"
    ELSE IF c.CADirectoryURL = ""
        THEN "config: ca_directory_url cannot be empty when enabled"
    ELSE ""

\* part_010:21-52  Config.Validate of the configuration with a provider map;
\* the struct has no Enabled field
ValidateProviders(c) ==
    IF c.Email = "" THEN "config: email cannot be empty"
    ELSE IF Len(c.Domains) = 0 THEN "config: domains cannot be empty"
    ELSE IF DOMAIN c.DNSProviders = {} THEN "config: dns_providers cannot be empty"
    ELSE IF \E n \in DOMAIN c.DNSProviders : n = "cloudflare" /\ c.DNSProviders[n] = ""
        THEN "config: api_token cannot be empty for dns_provider"
    ELSE IF c.AcmeAccountPrivateKey = ""
        THEN "config: acme_account_private_key cannot be empty"
    ELSE IF c.CADirectoryURL = "" THEN "config: ca_directory_url cannot be empty"
    ELSE ""

\* acme-types.go:35-55  validateAcme
validateAcme(c) ==
    IF ~c.Enabled THEN ""
    ELSE IF c.Email = "" THEN "acme.email cannot be empty when enabled"
    ELSE IF Len(c.Domains) = 0 THEN "acme.domains cannot be empty when enabled"
    ELSE IF c.DNSProvider = "" THEN "acme.dns_provider cannot be empty when enabled"
    ELSE IF c.DNSProvider = "cloudflare" /\ c.CloudflareApiToken = ""
        THEN "acme.cloudflare_api_token cannot be empty when dns_provider is 'cloudflare'"
    ELSE IF c.AcmeAccountPrivateKey = ""
        THEN "acme.acme_private_key cannot be empty when enabled"
    ELSE ""

\* the configurations with one provider name validate with config.go and
\* acme-types.go, those with a provider map with part_010
InitValidate ==
    /\ Init
    /\ variant \in {"TLS", "V1"}

ValidateFrame ==
    UNCHANGED <<variant, cfg, now, pc, runs, calls, obtainReq, resource,
                resolved, registration, gate, saveArgs, store, logs, result,
                resp, prev, saveLog, reader, pair>>

CallValidate ==
    /\ variant = "TLS"
    /\ ~validation.called
    /\ validation' = [called |-> TRUE, by |-> "Validate", err |-> Validate(cfg)]
    /\ ValidateFrame

CallValidateProviders ==
    /\ variant = "V1"
    /\ ~validation.called
    /\ validation' = [called |-> TRUE, by |-> "ValidateProviders",
                      err |-> ValidateProviders(cfg)]
    /\ ValidateFrame

CallValidateAcme ==
    /\ variant = "TLS"
    /\ ~validation.called
    /\ validation' = [called |-> TRUE, by |-> "validateAcme",
                      err |-> validateAcme(cfg)]
    /\ ValidateFrame

NextValidate ==
    \/ CallValidate
    \/ CallValidateProviders
    \/ CallValidateAcme

SpecValidate == InitValidate /\ [][NextValidate]_vars

\* a provider is selected and, where the selected provider is cloudflare,
\* its token is present
ProviderAndCredential(c) ==
    IF variant = "TLS"
    THEN c.DNSProvider # "" /\ (c.DNSProvider = "cloudflare" => c.CloudflareApiToken # "")
    ELSE /\ DOMAIN c.DNSProviders # {}
         /\ \A n \in DOMAIN c.DNSProviders :
               n = "cloudflare" => c.DNSProviders[n] # ""

RequiredFieldMissing(c) ==
    \/ c.Email = ""
    \/ Len(c.Domains) = 0
    \/ ~ProviderAndCredential(c)
    \/ c.CADirectoryURL = ""
    \/ c.AcmeAccountPrivateKey = ""

(* C25: validation of a disabled configuration returns no error whatever   *)
(* its other fields hold; validation of an enabled configuration returns   *)
(* an error exactly when the e-mail, the domain list, the provider         *)
(* selection or its credential, the CA directory URL or the account        *)
(* private key is empty.                                                   *)
C25_ValidateRequiredFields ==
    validation.called =>
        (validation.err # "" <=> (cfg.Enabled /\ RequiredFieldMissing(cfg)))

-----------------------------------------------------------------------------
(* Wildcard entries of the domain list *)

IsWildcard(d) == d \in {"*.example.com", "*.example.org"}

\* the domain a wildcard entry is the wildcard of
BaseOf(d) ==
    IF d = "*.example.com" THEN "example.com"
    ELSE IF d = "*.example.org" THEN "example.org"
    ELSE d

WildcardsHaveBase(ds) ==
    \A i \in 1..Len(ds) :
       IsWildcard(ds[i]) => \E j \in 1..Len(ds) : ds[j] = BaseOf(ds[i])

(* C26: no invocation calls Obtain with a domain list that has a wildcard  *)
(* entry without its base domain; an invocation with such a list fails     *)
(* before its first external call.                                         *)
C26_NoWildcardWithoutBase ==
    /\ Called("obtain") => WildcardsHaveBase(obtainReq.Domains)
    /\ (runs > 0 /\ ~WildcardsHaveBase(cfg.Domains)) =>
          (calls = <<>> /\ (Terminal => pc = "failed"))

-----------------------------------------------------------------------------
(* The consumer of the saved certificate *)

(* C27: after any sequence of renewal runs that saved a certificate, the   *)
(* certificate update-app-certificate reads is the one the handler saved   *)
(* last: the handler saves under the scope acme_certificate and the        *)
(* consumer reads the latest version of that scope.                        *)
C27_ConsumerReadsLastSaved ==
    [][(variant \in {"V1", "V2"} /\ reader' # reader /\ saveLog # <<>>) =>
          /\ \A i \in 1..Len(store) : store[i].scope = CertificateScope
          /\ reader'.found
          /\ reader'.payload = saveLog[Len(saveLog)]]_vars

-----------------------------------------------------------------------------
(* Success of an invocation that had to renew *)

\* the invocation had to renew: always for V1, V2 and Hist, for TLS when the
\* expiry gate was reached and answered that renewal is needed
RenewalNeeded ==
    /\ runs > 0
    /\ variant = "TLS" => (gate.called /\ ~gate.failed /\ gate.needs)

\* the last external call of the invocation is a save that returned success
SaveSucceeded ==
    /\ resp # <<>>
    /\ resp[Len(resp)] = Answer("save", TRUE, NoChain)

(* C30: an invocation that had to renew ends in Done, with success, if and *)
(* only if Obtain succeeded and the save returned success, and the record  *)
(* saved is the one built from the resource of that Obtain and is in the   *)
(* store: no invocation ends in Done with an obtained certificate left     *)
(* unrecorded.                                                             *)
C30_DoneIffObtainedAndSaved ==
    (Terminal /\ RenewalNeeded) =>
        /\ pc = "done" <=> (ObtainSucceeded /\ SaveSucceeded)
        /\ pc = "done" =>
              LET rec == RecordOf(variant, cfg, resource) IN
              /\ result = Success
              /\ saveArgs = <<rec>>
              /\ saveLog # <<>>
              /\ saveLog[Len(saveLog)] = rec
              /\ \E i \in 1..Len(store) : store[i].payload = rec

C30_Witness ==
    /\ variant = "V2"
    /\ pc = "done"
    /\ RenewalNeeded
    /\ ObtainSucceeded
    /\ SaveSucceeded
    /\ \E i \in 1..Len(store) : store[i].payload = RecordOf(variant, cfg, resource)

-----------------------------------------------------------------------------
(* The store in invocations that fail before the save *)

\* the steps of Handle before the save step
PreSavePhases ==
    {"parseKey", "newClient", "resolve", "setProvider", "register", "obtain"}

(* C31: an invocation that fails in key parsing, client creation, provider *)
(* resolution, solver installation, registration or Obtain has not called  *)
(* the save, and no step other than the save step changes the store: the   *)
(* store after such an invocation is the store before it.                  *)
C31_FailureBeforeSaveKeepsStore ==
    [][/\ pc # "save" => store' = store
       /\ (pc \in PreSavePhases /\ pc' = "failed") =>
             /\ ~Called("save")'
             /\ saveArgs' = <<>>
             /\ saveLog' = saveLog]_vars

C31_Witness ==
    /\ variant \in {"V2", "Hist"}
    /\ runs = 2
    /\ pc = "failed"
    /\ Called("obtain")
    /\ ~Called("save")
    /\ prev.result = Success
    /\ Len(store) = 1
    /\ saveLog = <<store[1].payload>>

-----------------------------------------------------------------------------
(* The scopes of the secure store and the update-app-certificate commands *)

\* AcmeCertRenewal.go:261  the scope of the renewal configuration
ScopeConfig == "acme_config"

\* the application configurations found in the store: config.Config, of
\* which the commands touch Server.CertData and Server.KeyData
AppConfigs ==
    [Server : [Addr : {":443"},
               CertData : {NoChain, Leaf(-80 * HoursPerDay, 10 * HoursPerDay)},
               KeyData : {"", "old-key-pem"}]]

NotToml == [toml |-> "bad",
            config |-> [Server |-> [Addr |-> "", CertData |-> NoChain, KeyData |-> ""]],
            extra |-> FALSE]

\* the versions of the application configuration at the start: none, one
\* written by hand (with comments), one written by a command, or one that
\* does not parse
AppHistories(scope) ==
    {<<>>}
    \cup {<<[scope |-> scope, payload |-> TomlDoc(c, x), format |-> "toml",
             description |-> [identifier |-> ""]]>> :
            c \in AppConfigs, x \in BOOLEAN}
    \cup {<<[scope |-> scope, payload |-> NotToml, format |-> "toml",
             description |-> [identifier |-> ""]]>>}

\* the configurations the handler runs with here: all fields that only feed
\* the CA client are set, the account key and the providers vary
ScopeConfigs(v) ==
    {c \in ConfigsOf(v) :
        /\ c.Email # ""
        /\ c.CADirectoryURL # ""
        /\ c.Domains = <<"example.com", "*.example.com">>}

\* the version of the renewal configuration the handler was constructed from
ConfigVersion(c) ==
    [scope |-> ScopeConfig, payload |-> c, format |-> "toml",
     description |-> [identifier |-> ""]]

\* the secure store holds the renewal configuration and the application
\* configuration (V1, V2); for the file-based command the store is the
\* app_config table
InitScopes ==
    /\ variant \in {"V1", "V2", "TLS"}
    /\ cfg \in IF variant = "TLS"
               THEN {PairConfig("TLS", <<"example.com", "*.example.com">>)}
               ELSE ScopeConfigs(variant)
    /\ store \in IF variant = "TLS"
                 THEN AppHistories(AppConfigTable)
                 ELSE {<<ConfigVersion(cfg)>> \o h : h \in AppHistories(ScopeApplication)}
    /\ now = 0
    /\ pc = "idle"
    /\ runs = 0
    /\ calls = <<>>
    /\ obtainReq = NoRequest
    /\ resource = NoResource
    /\ resolved = NoResolve
    /\ registration = "nil"
    /\ gate = NoGate
    /\ saveArgs = <<>>
    /\ logs = {}
    /\ result = Pending
    /\ resp = <<>>
    /\ prev = NoPrev
    /\ saveLog = <<>>
    /\ reader = NoRead
    /\ pair = NoPair
    /\ validation = NoValidation

\* the key and certificate files given to the file-based command
CertFiles ==
    {[ok |-> FALSE, step |-> "key", CertificateChain |-> NoChain, PrivateKey |-> ""],
     [ok |-> FALSE, step |-> "cert", CertificateChain |-> NoChain, PrivateKey |-> ""],
     [ok |-> TRUE, step |-> "", CertificateChain |-> Leaf(0, 90 * HoursPerDay),
      PrivateKey |-> "issued-key-pem"]}

\* what the file-based command read from its files
FilesRead(f) ==
    [called |-> TRUE, found |-> f.ok,
     payload |-> [CertificateChain |-> f.CertificateChain, PrivateKey |-> f.PrivateKey],
     err |-> ""]

\* cmd/update-app-certificate/main.go:194-261  UpdateConfigWithCert with
\* getLatestEncryptedConfig, decryptData, encryptData, insertEncryptedConfig
UpdateConfigWithCert ==
    /\ variant = "TLS"
    /\ Len(store) < MaxAppVersions
    /\ \E decrypts \in BOOLEAN, f \in CertFiles, encrypts \in BOOLEAN, inserted \in BOOLEAN :
          LET r == FilesRead(f) IN
          IF store = <<>>
          THEN reader' = Exit(r, "no configuration found in the database") /\ store' = store
          ELSE IF ~decrypts
          THEN reader' = Exit(r, "failed to create age decryption reader") /\ store' = store
          ELSE IF ~TomlUnmarshal(store[Len(store)].payload).ok
          THEN reader' = Exit(r, "failed to unmarshal TOML config") /\ store' = store
          ELSE IF ~f.ok
          THEN /\ reader' = Exit(r, IF f.step = "key" THEN "failed to read key file"
                                    ELSE "failed to read cert file")
               /\ store' = store
          ELSE IF ~encrypts
          THEN reader' = Exit(r, "failed to create age encryption writer") /\ store' = store
          ELSE IF ~inserted
          THEN reader' = Exit(r, "database insert failed") /\ store' = store
          ELSE /\ reader' = r
               /\ store' = Append(store,
                     AppVersion(AppConfigTable,
                                WithCertificate(TomlUnmarshal(store[Len(store)].payload).config,
                                                f.CertificateChain, f.PrivateKey),
                                [identifier |-> ""]))
    /\ reader' # reader \/ store' # store
    /\ UNCHANGED <<variant, cfg, now, pc, runs, calls, obtainReq, resource, resolved,
                   registration, gate, saveArgs, logs, result,
                   resp, prev, saveLog, pair, validation>>

\* the job runner invokes the handler of the secure-store iterations
InvokeHandler ==
    /\ variant \in {"V1", "V2"}
    /\ Invoke

NextScopes ==
    \/ InvokeHandler
    \/ ParseAccountKey
    \/ NewClient
    \/ ResolveProvider
    \/ SetDNS01Provider
    \/ Register
    \/ Obtain
    \/ SaveCertificate
    \/ UpdateAppCertificate
    \/ UpdateConfigWithCert

SpecScopes == InitScopes /\ [][NextScopes]_vars


\* a step of Handle: every step of the handler moves its position
HandlerStep == pc' # pc \/ runs' # runs

\* a run of an update-app-certificate command
CommandStep == pc' = pc /\ runs' = runs

(* C32: a step of Handle, whatever the outcome of the run it belongs to,   *)
(* leaves the versions of the renewal-configuration scope and of the       *)
(* application-configuration scope as they were, and a version it adds is  *)
(* in the certificate scope of the handler.                                *)
C32_HandleWritesCertificateScopeOnly ==
    [][HandlerStep =>
          /\ \A s \in {ScopeConfig, ScopeApplication} :
                ScopeVersions(store', s) = ScopeVersions(store, s)
          /\ store' # store =>
                /\ store' = Append(store, store'[Len(store')])
                /\ store'[Len(store')].scope = ScopeOf(variant)
                /\ ScopeOf(variant) \in CertificateScopes]_vars

C32_Witness ==
    /\ variant = "V2"
    /\ pc = "done"
    /\ Called("save")
    /\ Len(ScopeVersions(store, ScopeConfig)) = 1
    /\ Len(ScopeVersions(store, ScopeApplication)) = 2
    /\ Len(ScopeVersions(store, ScopeAcmeCertificate)) = 2

\* the scope or table the command of this iteration keeps the application
\* configuration in
AppScope == IF variant = "TLS" THEN AppConfigTable ELSE ScopeApplication

-----------------------------------------------------------------------------
(* The configuration provider of the TLS iteration *)

InitReload ==
    /\ Init
    /\ variant = "TLS"

\* another thread replaces the provider's current configuration after Handle
\* took its snapshot (part_004:61).  Between Obtain and the save no statement
\* of Handle reads the snapshot any more, so a replacement at that point is
\* seen by exactly the statements that call h.configProvider.Get() again.
ReplaceConfig ==
    /\ variant = "TLS"
    /\ pc = "save"
    /\ \E ds \in DomainLists :
          /\ ds # cfg.Domains
          /\ cfg' = [cfg EXCEPT !.Domains = ds]
    /\ UNCHANGED <<variant, now, pc, runs, calls, obtainReq, resource, resolved,
                   registration, gate, saveArgs, store, logs, result,
                   resp, prev, saveLog, reader, pair, validation>>

NextReload ==
    \/ Invoke
    \/ ValidateConfig
    \/ ParseAccountKey
    \/ NewClient
    \/ ResolveProvider
    \/ SetDNS01Provider
    \/ Register
    \/ Obtain
    \/ SaveCertificate
    \/ ReplaceConfig

SpecReload == InitReload /\ [][NextReload]_vars

(* C33: the domain list in the record a run saves is the domain list of    *)
(* the Obtain request of that run, also when the provider's configuration  *)
(* was replaced between the start of Handle and the save.                  *)
C33_RecordDomainsAreRequestDomains ==
    (variant = "TLS" /\ Called("save")) =>
        saveArgs[Len(saveArgs)].Domains = DomainsValue(variant, obtainReq.Domains)

-----------------------------------------------------------------------------
(* The manual renewal runner *)

\* the configurations config.LoadFromToml returns here: the fields that
\* only feed the CA client are set; Server.CertData is what the file holds
ManualConfigs ==
    {c \in TLSConfigs :
        /\ c.Email # ""
        /\ c.CADirectoryURL # ""
        /\ c.Domains = <<"example.com", "*.example.com">>
        /\ c.CertData \in {NoChain, Leaf(-30 * HoursPerDay, 60 * HoursPerDay)}}

\* a row of acme_certificates left by an earlier run
StoredRow(chain) ==
    EntryOf("TLS", PairConfig("TLS", <<"example.com", "*.example.com">>),
            [Domain |-> "example.com", Certificate |-> chain,
             PrivateKey |-> "issued-key-pem"])

ManualStores ==
    {<<>>,
     <<StoredRow(Leaf(-30 * HoursPerDay, 60 * HoursPerDay))>>,
     <<StoredRow(Leaf(-80 * HoursPerDay, 10 * HoursPerDay))>>}

\* part_002:69-71  Db.Get when the query itself fails
GetFailed ==
    [called |-> TRUE, found |-> FALSE, payload |-> NoResource,
     err |-> "acme: failed to get cert"]

InitManual ==
    /\ variant = "TLS"
    /\ cfg \in ManualConfigs
    /\ store \in ManualStores
    /\ now = 0
    /\ pc = "idle"
    /\ runs = 0
    /\ calls = <<>>
    /\ obtainReq = NoRequest
    /\ resource = NoResource
    /\ resolved = NoResolve
    /\ registration = "nil"
    /\ gate = NoGate
    /\ saveArgs = <<>>
    /\ logs = {}
    /\ result = Pending
    /\ resp = <<>>
    /\ prev = NoPrev
    /\ saveLog = <<>>
    /\ reader = NoRead
    /\ pair = NoPair
    /\ validation = NoValidation

\* variant of LoadExistingCertIntoConfig that exits when the read fails
LoadExistingCertOrExit ==
    /\ variant = "TLS"
    /\ pc = "idle"
    /\ runs = 0
    /\ ~reader.called
    /\ \E r \in GetResults(store) \cup {GetFailed} :
          /\ reader' = r
          /\ cfg' = IF r.found
                    THEN [cfg EXCEPT !.CertData = r.payload.CertificateChain]
                    ELSE cfg
          /\ pc' = IF r.found THEN pc ELSE "failed"
    /\ UNCHANGED <<variant, now, runs, calls, obtainReq, resource, resolved,
                   registration, gate, saveArgs, store, logs, result,
                   resp, prev, saveLog, pair, validation>>

\* cmd/acme/main.go:82-98: dbConn.Get(); a certificate that was found goes
\* into cfg.Server.CertData, an error is logged and the runner goes on
LoadExistingCertIntoConfig ==
    /\ variant = "TLS"
    /\ pc = "idle"
    /\ runs = 0
    /\ ~reader.called
    /\ \E r \in GetResults(store) \cup {GetFailed} :
          /\ reader' = r
          /\ cfg' = IF r.found
                    THEN [cfg EXCEPT !.CertData = r.payload.CertificateChain]
                    ELSE cfg
    /\ UNCHANGED <<variant, now, pc, runs, calls, obtainReq, resource, resolved,
                   registration, gate, saveArgs, store, logs, result,
                   resp, prev, saveLog, pair, validation>>

\* cmd/acme/main.go:99-113: the handler is constructed and Handle is called
\* once, after the load
RunHandler ==
    /\ reader.called
    /\ runs = 0
    /\ Invoke

NextManual ==
    \/ LoadExistingCertIntoConfig
    \/ RunHandler
    \/ ValidateConfig
    \/ ParseAccountKey
    \/ NewClient
    \/ ResolveProvider
    \/ SetDNS01Provider
    \/ Register
    \/ Obtain
    \/ SaveCertificate

SpecManual == InitManual /\ [][NextManual]_vars

\* the read of the existing certificate failed: not found or a read error
ReadFailed == reader.called /\ ~reader.found

-----------------------------------------------------------------------------
(* Termination of Handle *)

\* Handle is between its entry and its return
Running == pc \notin {"idle", "done", "failed"}

\* Handle runs on the goroutine of its caller and every external call it
\* waits for returns: each step of Handle that can be taken is taken.  No
\* fairness is assumed for Invoke or for the commands that read the store.
HandleFairness ==
    /\ WF_vars(ValidateConfig)
    /\ WF_vars(ParseAccountKey)
    /\ WF_vars(NewClient)
    /\ WF_vars(ResolveProvider)
    /\ WF_vars(SetDNS01Provider)
    /\ WF_vars(Register)
    /\ WF_vars(Obtain)
    /\ WF_vars(SaveCertificate)

\* termination does not depend on the values of the fields that only feed
\* the CA client or the expiry arithmetic: one value of each is kept
InitLive ==
    /\ Init
    /\ cfg.Email # ""
    /\ cfg.CADirectoryURL # ""
    /\ cfg.RenewalDaysBeforeExpiry \in {0, 30}
    /\ cfg.CertData \in {NoChain, GarbageChain,
                         Leaf(-80 * HoursPerDay, 10 * HoursPerDay),
                         Leaf(-30 * HoursPerDay, 60 * HoursPerDay)}

SpecLive == InitLive /\ [][Next]_vars /\ HandleFairness

(* C36: every invocation of Handle reaches Done or Failed, provided every  *)
(* external call it makes returns: between entry and return Handle only    *)
(* moves forward through its steps.                                        *)
C36_HandleTerminates == Running ~> Terminal

C36_Witness ==
    /\ runs = MaxRuns
    /\ pc = "failed"
    /\ Called("register")
    /\ ~Called("obtain")
    /\ prev.ran
    /\ prev.result = Success

=============================================================================
